---- MODULE Spec2Model ----
\* Loudness DD: the Coordinator (background service worker, src/src/background.ts)
\* and the audio host (offscreen document, src/src/offscreen.ts) as a state machine.
\*
\* JavaScript runs each handler to its next `await` without interruption, so every
\* action below is one such run-to-await segment of a handler.  Messages between the
\* two contexts travel in two FIFO channels: toOff (background -> offscreen requests)
\* and toBg (offscreen -> background notifications and responses).  A request carries
\* the continuation `k` of the handler that awaits its response.
\*
\* Environment assumptions of this model: the offscreen document exists and
\* chrome.runtime.sendMessage does not throw; persistence (chrome.storage) and the
\* badge are not part of the state.  Loudness values are integers in dB, -Infinity is
\* the sentinel NegInf.  The gain node is represented by the dB value handed to
\* dbToGain (10^(dB/20) is injective, so equal dB values are equal linear gains).
EXTENDS Integers, Sequences, FiniteSets, TLC

----------------------------------------------------------------------------
\* Bounds of the model.
MaxCmds == 4      \* commands and host events (readings, timer ticks, tab and track ends) in one behaviour
MaxInFlight == 2  \* a command or host event only happens while fewer messages and calls are in flight
MaxFrames == 480000   \* frames one engine processes between resets (10 s at 48 kHz)
MaxLongFrames == 2928000   \* frames of one engine fed a second per call (61 s at 48 kHz)
MixedHops == 6        \* a signal of changing power is processed for this many hops
MaxHostCmds == 4      \* START_CAPTURE, STOP_CAPTURE and SetLimiter commands in one behaviour of the host
MaxSends == 3      \* sendToOffscreen calls
MaxCaptures == 2      \* capture attempts that get as far as a media stream

\* Program constants.
sampleRate == 48000
MAX_INTEGRATED_BLOCKS == 600
MIN_BLOCKS_FOR_RELIABLE_LUFS == 10
DEFAULT_MIN_GAIN == -60
DEFAULT_MAX_GAIN == 0
MaxGainFloor == -20
MaxGainCeil == 20
TargetFloor == -60
TargetCeil == 0
DefaultTargetLufs == -14
MuteRequestDb == -100
NegInf == -1000
None == 0

Tabs == {1, 2}     \* stream (tab) ids

\* Powers of a frame, in units in which ABSOLUTE_THRESHOLD (-70 LUFS) is GatePower:
\* silence, -80 LUFS, exactly -70 LUFS, and about -63 LUFS.
GatePower == 10
Powers == {0, 1, GatePower, 50}
Mixed == -1          \* the power of a signal whose power changes from call to call
Missing == -2        \* input[1] of a mono input
\* The input of a render call: the power per frame of the left channel and of the
\* right one, which a mono input lacks.
\* The steady signals have the powers of Powers; a changing signal has a tenth one,
\* about -53 LUFS, as well.
Inputs == { [ left |-> 0, right |-> 0 ], [ left |-> 1, right |-> 0 ],
            [ left |-> 5, right |-> 5 ], [ left |-> 5, right |-> Missing ],
            [ left |-> 25, right |-> 25 ], [ left |-> 250, right |-> 250 ] }
\* What the output buffers of a render call hold on entry, per channel: zeros or not.
OutputContents == { << 0, 0 >>, << 1, 1 >> }

\* Partial LimiterSettings payloads of SET_LIMITER_SETTINGS.
LimiterPayloads == { [ enabled |-> TRUE ], [ enabled |-> FALSE ],
                     [ thresholdDb |-> -30 ], [ thresholdDb |-> 50 ],
                     [ kneeDb |-> 6, ratio |-> 0 ],
                     [ attackMs |-> 5, releaseMs |-> 50 ] }

\* Inputs the commands are drawn from.
GainInputs == {-3, 100}
MaxGainInputs == {-25, 0, 20}
TargetInputs == {-100, 100}
BalanceTargets == {None, 100}     \* None: AUTO_BALANCE_REQUEST without targetLufs
Readings == { [integrated |-> -20, blockCount |-> 5],
              [integrated |-> -30, blockCount |-> 10],
              [integrated |-> NegInf, blockCount |-> 12] }

VARIABLES
    capturedTabs,         \* background: Map<tabId, TabCaptureState>
    soloTabId,            \* background: soloed tab or None
    autoBalanceSettings,  \* background: [enabled, targetLufs]
    autoBalanceInterval,  \* background: TRUE while the setInterval timer exists
    regs,                 \* background: startTabCapture calls that have not yet sent START_CAPTURE
    ready,                \* background: balance passes resumed after an awaited setTabGain
    nextObj,              \* background: allocation stamp of the next TabCaptureState object
    processors,           \* offscreen: Map<tabId, TabAudioProcessor>
    toOff,                \* channel background -> offscreen
    toBg,                 \* channel offscreen -> background
    tabAlive,             \* host: the browser tabs that exist
    budget,               \* commands still to be issued
    registered,           \* history: successful registrations per tab since its last removal
    last,                 \* history: the action taken last
    scn,                  \* history: the isolated scenario in progress, with its snapshot
    engine,               \* worklet: one LufsProcessor, sample by sample (EngineSpec)
    calculator,           \* audio/lufs: one LufsCalculator fed the engine's frames (EngineSpec)
    signal,               \* worklet: the input, [p: power per frame or Mixed, n: frames per call]
    limiterSettings,        \* background: the limiter settings (HostSpec)
    globalLimiterSettings,  \* offscreen: the limiter settings
    hostProcessors,         \* offscreen: Map<tabId, TabAudioProcessor>, with limiter node and capture
    captures,               \* offscreen: the media stream and AudioContext of every capture attempt
    calls,                  \* offscreen: async calls suspended at an await
    toHost,                 \* channel background -> offscreen (SET_LIMITER)
    fromHost,               \* channel offscreen -> background (its responses)
    hostBudget,             \* commands still to be issued to the host
    toggled,                \* history: an enabled off/on toggle in progress, with its snapshot
    offscreenDocumentReady, \* background: the flag of the handshake (BootSpec)
    offscreenReadyResolve,  \* background: the sendToOffscreen call waitForOffscreenReady resolves, or None
    document,               \* host: the offscreen document: "none", "loading", "loaded"
    readyMessage,           \* channel offscreen -> background: OFFSCREEN_READY is on its way
    sends,                  \* background: sendToOffscreen calls suspended in ensureOffscreenDocument
    sent,                   \* history: the commands sent, with whether the document had signalled
    sendBudget              \* commands still to be issued

appVars == << capturedTabs, soloTabId, autoBalanceSettings, autoBalanceInterval, regs, ready,
              nextObj, processors, toOff, toBg, tabAlive, budget, registered, last, scn >>

hostVars == << limiterSettings, globalLimiterSettings, hostProcessors, captures, calls,
               toHost, fromHost, hostBudget, toggled >>

engineVars == << engine, calculator, signal >>

bootVars == << offscreenDocumentReady, offscreenReadyResolve, document, readyMessage,
               sends, sent, sendBudget >>

vars == << appVars, engineVars, hostVars, bootVars >>

----------------------------------------------------------------------------
\* Records.

NoTab == [ has |-> FALSE, obj |-> 0, ins |-> 0, isCapturing |-> FALSE,
           integrated |-> NegInf, blockCount |-> 0,
           gainDb |-> 0, maxGainDb |-> 0, isSolo |-> FALSE ]

\* The TabCaptureState startTabCapture builds; `obj` is the object's identity and
\* `ins` its position in the Map's insertion order.
NewTabState(obj, ins) ==
    [ has |-> TRUE, obj |-> obj, ins |-> ins, isCapturing |-> TRUE,
      integrated |-> NegInf, blockCount |-> 0,
      gainDb |-> 0, maxGainDb |-> DEFAULT_MAX_GAIN, isSolo |-> FALSE ]

\* The worklet's engine as the offscreen document sees it: the reading it would post.
NewWorklet == [ integrated |-> NegInf, blockCount |-> 0 ]

\* A TabAudioProcessor: gain node, cached reading (lastIntegrated, blockCount), its
\* worklet, and whether a 'reset' posted to the worklet's port is still on its way.
\* `unread` records that no reading was forwarded since the capture started or was reset.
NoProc == [ has |-> FALSE, gainDb |-> 0, lastIntegrated |-> NegInf, blockCount |-> 0,
            worklet |-> NewWorklet, resetPosted |-> FALSE, unread |-> FALSE ]
NewProc == [ has |-> TRUE, gainDb |-> 0, lastIntegrated |-> NegInf, blockCount |-> 0,
             worklet |-> NewWorklet, resetPosted |-> FALSE, unread |-> TRUE ]

\* `periodic` marks a pass that the setInterval callback started.
NoLoop == [ kind |-> "none", target |-> 0, cursor |-> 0, rm |-> None, periodic |-> FALSE ]
PassLoop(target, cursor) ==
    [ kind |-> "pass", target |-> target, cursor |-> cursor, rm |-> None, periodic |-> FALSE ]
RemoveLoop(rm, cursor) ==
    [ kind |-> "remove", target |-> 0, cursor |-> cursor, rm |-> rm, periodic |-> FALSE ]

NoK == [ kind |-> "none", obj |-> 0, src |-> "none", loop |-> NoLoop ]
Cont(kind, obj, src, loop) == [ kind |-> kind, obj |-> obj, src |-> src, loop |-> loop ]

Req(type, tab, g, k) == [ type |-> type, tab |-> tab, gainDb |-> g, k |-> k ]

Note(type, tab, g, integ, bc) ==
    [ type |-> type, tab |-> tab, gainDb |-> g, integrated |-> integ, blockCount |-> bc,
      ok |-> TRUE, k |-> NoK, first |-> FALSE ]

Resp(req, ok) ==
    [ type |-> "RESPONSE", tab |-> req.tab, gainDb |-> req.gainDb, integrated |-> NegInf,
      blockCount |-> 0, ok |-> ok, k |-> req.k, first |-> FALSE ]

NoLast == [ name |-> "Init", tab |-> None, target |-> 0, issued |-> None,
            periodic |-> FALSE, sent |-> 0 ]
Did(name, tab) == [ name |-> name, tab |-> tab, target |-> 0, issued |-> None,
                    periodic |-> FALSE, sent |-> 0 ]

Gains(ct) == [ t \in Tabs |-> ct[t].gainDb ]
Applied(pr) == [ t \in Tabs |-> pr[t].gainDb ]
NoScn == [ kind |-> "none", tab |-> None, target |-> 0, prev |-> 0, quiet |-> FALSE,
           gains |-> [ t \in Tabs |-> 0 ], applied |-> [ t \in Tabs |-> 0 ] ]
Snap(kind, tab, target, quiet) ==
    [ kind |-> kind, tab |-> tab, target |-> target, prev |-> 0, quiet |-> quiet,
      gains |-> Gains(capturedTabs), applied |-> Applied(processors) ]

----------------------------------------------------------------------------
\* Pure helpers.

Max(a, b) == IF a >= b THEN a ELSE b
Min(a, b) == IF a <= b THEN a ELSE b

isFinite(x) == x # NegInf

\* Variant: any reading at all counts as reliable.
hasAnySamples(tabState) == tabState.blockCount >= 1

hasEnoughSamples(tabState) == tabState.blockCount >= MIN_BLOCKS_FOR_RELIABLE_LUFS

\* Variant: the floor is applied but not the per-stream ceiling.
ClampGainFloorOnly(tabState, gainDb) == Max(DEFAULT_MIN_GAIN, gainDb)

\* setTabGain: gainDb = Math.max(DEFAULT_MIN_GAIN, Math.min(tabState.maxGainDb, gainDb))
ClampGain(tabState, gainDb) == Max(DEFAULT_MIN_GAIN, Min(tabState.maxGainDb, gainDb))

\* setTabMaxGain: Math.max(-20, Math.min(20, maxGainDb))
ClampMaxGain(maxGainDb) == Max(MaxGainFloor, Min(MaxGainCeil, maxGainDb))

\* setTargetLufs: Math.max(-60, Math.min(0, targetLufs))
ClampTarget(targetLufs) == Max(TargetFloor, Min(TargetCeil, targetLufs))

\* AUTO_BALANCE_REQUEST: msg.targetLufs ?? autoBalanceSettings.targetLufs
RequestTarget(given, stored) == IF given = None THEN stored ELSE given

MapDelete(ct, t) == [ ct EXCEPT ![t] = NoTab ]

\* capturedTabs.set(tabId, tabState): a key already in the Map keeps its position.
MapSet(ct, t, stamp) ==
    [ ct EXCEPT ![t] = NewTabState(stamp, IF ct[t].has THEN ct[t].ins ELSE stamp) ]

\* tabState.gainDb = gainDb, on the object the handler looked up before its await.
WriteGain(ct, t, obj, g) ==
    IF ct[t].has /\ ct[t].obj = obj THEN [ ct EXCEPT ![t].gainDb = g ] ELSE ct

\* The entries a live Map iterator still has to visit after the entry stamped `cursor`.
After(ct, cursor) == { t \in Tabs : ct[t].has /\ ct[t].ins > cursor }
First(ct, S) == CHOOSE x \in S : \A y \in S : ct[x].ins <= ct[y].ins

\* Variant: a new request overtakes the requests already waiting.
sendToOffscreenOvertaking(q, msgs) == msgs \o q

\* sendToOffscreen: chrome.runtime.sendMessage delivers to the offscreen document in
\* the order of the calls.
sendToOffscreen(q, msgs) == q \o msgs

\* The synchronous part of setTabGain(tabId, gainDb) for a tracked tab: clamp and send.
SetTabGainReq(ct, t, g, src, loop) ==
    Req("SET_GAIN", t, ClampGain(ct[t], g), Cont("gain", ct[t].obj, src, loop))

Quiescent == toOff = <<>> /\ toBg = <<>> /\ ready = <<>> /\ regs = <<>>

----------------------------------------------------------------------------
\* Loops of the background that run across awaits.

\* autoBalanceOnce(targetLufs), from the Map iterator's position `cursor` up to its
\* next `await setTabGain(...)`: the SET_GAIN requests the segment sends, in order.
\* A tab muted by solo gets setTabGain(tabId, -100) without await and the loop goes
\* on; the segment ends with the awaited request (src "balance") or at the Map's end.
RECURSIVE autoBalanceOnce(_, _, _, _)
autoBalanceOnce(ct, solo, targetLufs, cursor) ==
    IF After(ct, cursor) = {} THEN << >>
    ELSE LET tabId == First(ct, After(ct, cursor))
             tabState == ct[tabId]
         IN  IF ~tabState.isCapturing
               THEN autoBalanceOnce(ct, solo, targetLufs, tabState.ins)
             ELSE IF solo # None /\ solo # tabId
               THEN << SetTabGainReq(ct, tabId, MuteRequestDb, "mute", NoLoop) >>
                    \o autoBalanceOnce(ct, solo, targetLufs, tabState.ins)
             ELSE IF ~hasEnoughSamples(tabState)
               THEN autoBalanceOnce(ct, solo, targetLufs, tabState.ins)
             ELSE IF ~isFinite(tabState.integrated)
               THEN autoBalanceOnce(ct, solo, targetLufs, tabState.ins)
             ELSE << SetTabGainReq(ct, tabId, targetLufs - tabState.integrated, "balance",
                                   PassLoop(targetLufs, tabState.ins)) >>

\* The tab the segment awaits (None when the pass ran to the end of the Map).
Awaited(msgs) ==
    IF msgs # << >> /\ msgs[Len(msgs)].k.src = "balance" THEN msgs[Len(msgs)].tab ELSE None

\* removeTab's restore loop after an await: the next tab other than `rm` gets its
\* stored gain re-sent (awaited); at the Map's end `rm` is deleted and STOP_CAPTURE sent.
removeLoop(ct, rm, cursor) ==
    LET rest == After(ct, cursor) \ {rm}
    IN  IF rest = {}
          THEN [ ct |-> MapDelete(ct, rm),
                 out |-> << Req("STOP_CAPTURE", rm, 0, NoK) >> ]
          ELSE LET tid == First(ct, rest)
               IN  [ ct |-> [ ct EXCEPT ![tid].isSolo = FALSE ],
                     out |-> << Req("SET_GAIN", tid, ct[tid].gainDb,
                                    Cont("restore", ct[tid].obj, "restore",
                                         RemoveLoop(rm, ct[tid].ins))) >> ]

\* A removeTab that leaves the Map as it is.
removeTabKeeping(ct, solo, tabId) == [ ct |-> ct, solo |-> solo, out |-> << >> ]

\* removeTab(tabId, reason) up to its first await.
removeTab(ct, solo, tabId) ==
    IF ~ct[tabId].has
      THEN [ ct |-> ct, solo |-> solo, out |-> << >> ]
    ELSE IF solo = tabId
      THEN [ ct |-> removeLoop(ct, tabId, 0).ct, solo |-> None,
             out |-> removeLoop(ct, tabId, 0).out ]
    ELSE [ ct |-> MapDelete(ct, tabId), solo |-> solo,
           out |-> << Req("STOP_CAPTURE", tabId, 0, NoK) >> ]

\* toggleSolo(tabId) for a tracked tab: only soloTabId and the isSolo flags change.
\* Variant: soloing also overwrites the stored gain of the other streams with the floor.
toggleSoloMuting(ct, solo, tabId) ==
    IF solo = tabId
      THEN [ ct |-> [ t \in Tabs |-> IF ct[t].has THEN [ ct[t] EXCEPT !.isSolo = FALSE ]
                                                  ELSE ct[t] ],
             solo |-> None ]
      ELSE [ ct |-> [ t \in Tabs |->
                        IF ct[t].has
                          THEN [ ct[t] EXCEPT !.isSolo = (t = tabId),
                                              !.gainDb = IF t = tabId THEN @ ELSE DEFAULT_MIN_GAIN ]
                          ELSE ct[t] ],
             solo |-> tabId ]

toggleSolo(ct, solo, tabId) ==
    IF solo = tabId
      THEN [ ct |-> [ t \in Tabs |-> IF ct[t].has THEN [ ct[t] EXCEPT !.isSolo = FALSE ]
                                                  ELSE ct[t] ],
             solo |-> None ]
      ELSE [ ct |-> [ t \in Tabs |-> IF ct[t].has THEN [ ct[t] EXCEPT !.isSolo = (t = tabId) ]
                                                  ELSE ct[t] ],
             solo |-> tabId ]

\* clearSolo()
clearSolo(ct, solo) ==
    IF solo = None THEN [ ct |-> ct, solo |-> solo ]
    ELSE [ ct |-> [ t \in Tabs |-> IF ct[t].has THEN [ ct[t] EXCEPT !.isSolo = FALSE ]
                                                ELSE ct[t] ],
           solo |-> None ]

----------------------------------------------------------------------------
\* History bookkeeping.

\* Message handling keeps a running scenario; anything else ends it.
ScnProcess ==
    IF scn.kind \in {"solo1", "hold"} /\ scn.quiet THEN [ scn EXCEPT !.kind = "hold" ]
    ELSE IF scn.kind \in {"bal1", "max1", "sgA", "sgB", "rst1"} THEN scn
    ELSE NoScn

\* The response to a SET_GAIN arrives: a SetMaxGain under observation that awaited it
\* is complete.
ScnGainResponse(src) ==
    IF scn.kind = "max1" /\ src = "max" THEN [ scn EXCEPT !.kind = "max2" ] ELSE ScnProcess

\* A balance pass starting (or resuming) with `msgs`, `first` for the BalanceNow command.
ScnPass(first, target, msgs) ==
    IF scn.kind \in {"solo1", "hold"} /\ scn.quiet THEN [ scn EXCEPT !.kind = "hold" ]
    ELSE IF first /\ Quiescent
      THEN Snap(IF Awaited(msgs) = None THEN "bal2" ELSE "bal1", None, target, TRUE)
    ELSE IF ~first /\ scn.kind = "bal1"
      THEN [ scn EXCEPT !.kind = IF Awaited(msgs) = None THEN "bal2" ELSE "bal1" ]
    ELSE NoScn

\* A periodic pass belongs to a solo scenario only.
ScnTick ==
    IF scn.kind \in {"solo1", "hold"} /\ scn.quiet THEN [ scn EXCEPT !.kind = "hold" ]
    ELSE NoScn

Forget(reg, t) == [ reg EXCEPT ![t] = 0 ]

RemoveAt(s, i) == SubSeq(s, 1, i - 1) \o SubSeq(s, i + 1, Len(s))

----------------------------------------------------------------------------
\* The loudness engine (LufsProcessor, src/unnamed/part_005).
\*
\* Loudness is kept as power.  A frame's power is the K-weighted, channel-summed square
\* the filters hand to the ring (zero in, zero out); a block's loudness is the sum of the
\* squares in the ring, that is its mean square times blockSizeSamples; -Infinity is
\* NegInf.  -0.691 + 10 log10(.) grows strictly with the power, so `l > ABSOLUTE_THRESHOLD`
\* is `power > AbsoluteGate`, 10 log10 of a mean of 10^(l/10) is the mean of the powers
\* (floored here), and "10 dB below" is a tenth.

blockSizeSamples == Max(128, (400 * sampleRate) \div 1000)
hopSizeSamples == Max(1, blockSizeSamples \div 4)
shortTermBlockCount == (3000 + 99) \div 100
\* An update interval as long as a block.
updateIntervalSamplesPerBlock == blockSizeSamples

updateIntervalSamples == Max(128, sampleRate \div 10)

\* Lengths of one process() call: a render quantum, a hop, a second.
FrameCounts == {128, hopSizeSamples, sampleRate}
MixedSignal == [ p |-> Mixed, n |-> hopSizeSamples ]

\* The ring's sum at exactly ABSOLUTE_THRESHOLD.
AbsoluteGate == GatePower * blockSizeSamples

\* The state the constructor builds.  ringSquares is kept in age order, oldest frame
\* first, as runs of equal squares; ringIndex is therefore always its head.
NewEngine ==
    [ ringSquares |-> << [ n |-> blockSizeSamples, p |-> 0 ] >>,
      sumSquares |-> 0,
      samplesSinceLastBlock |-> 0,
      samplesSinceLastUpdate |-> 0,
      blockLoudnesses |-> << >>,
      shortTermBlocks |-> << >>,
      blockCount |-> 0,
      frames |-> 0,          \* history: frames processed since construction or reset
      quiet |-> TRUE,        \* history: every frame since then had power 0
      posted |-> << >>,      \* the readings the last process() call posted
      outputs |-> << 0, 0 >>,        \* outputs[0]: one sample per channel stands for the buffer
      outputsBefore |-> << 0, 0 >>,  \* history: the buffers as the last call received them
      hadInput |-> FALSE,            \* history: the last call received input
      mono |-> FALSE,                \* history: the last call's input had no right channel
      published |-> 0,               \* history: readings posted since construction or reset
      emitted |-> << >> ]            \* history: the loudness of every block since then

\* The sum of a sequence, taken by halves.
RECURSIVE SumSeq(_)
SumSeq(s) ==
    IF s = << >> THEN 0
    ELSE IF Len(s) = 1 THEN s[1]
    ELSE LET half == Len(s) \div 2
         IN  SumSeq(SubSeq(s, 1, half)) + SumSeq(SubSeq(s, half + 1, Len(s)))

RECURSIVE RingSum(_)
RingSum(r) == IF r = << >> THEN 0 ELSE Head(r).n * Head(r).p + RingSum(Tail(r))

\* The ring without its n oldest frames.
RECURSIVE DropOldest(_, _)
DropOldest(r, n) ==
    IF n = 0 \/ r = << >> THEN r
    ELSE IF Head(r).n <= n THEN DropOldest(Tail(r), n - Head(r).n)
    ELSE << [ Head(r) EXCEPT !.n = @ - n ] >> \o Tail(r)

\* n frames of square p written over the n oldest frames.
WriteRing(r, n, p) ==
    LET kept == DropOldest(r, n)
    IN  IF kept # << >> /\ kept[Len(kept)].p = p
            THEN [ kept EXCEPT ![Len(kept)].n = @ + n ]
            ELSE Append(kept, [ n |-> n, p |-> p ])

computeCurrentBlockLufsFloored(sumSquares) == Max(1, sumSquares)

computeCurrentBlockLufs(sumSquares) == IF sumSquares <= 0 THEN NegInf ELSE sumSquares

aboveAbsoluteInclusive(l) == l >= AbsoluteGate

aboveAbsolute(l) == l > AbsoluteGate

getMomentary(st) ==
    IF st.shortTermBlocks = << >> THEN NegInf
    ELSE st.shortTermBlocks[Len(st.shortTermBlocks)]

getShortTerm(st) ==
    LET valid == SelectSeq(st.shortTermBlocks, aboveAbsolute)
    IN  IF valid = << >> THEN NegInf ELSE SumSeq(valid) \div Len(valid)

\* getIntegrated with the relative threshold 10 LU above the first-pass mean.
getIntegratedGateAbove(st) ==
    LET above == SelectSeq(st.blockLoudnesses, aboveAbsolute)
        firstMeanPower == SumSeq(above) \div Len(above)
        AboveRelative(l) == l > 10 * firstMeanPower
        aboveRelative == SelectSeq(above, AboveRelative)
    IN  IF above = << >> THEN NegInf
        ELSE IF aboveRelative = << >> THEN NegInf
        ELSE SumSeq(aboveRelative) \div Len(aboveRelative)

getIntegrated(st) ==
    LET above == SelectSeq(st.blockLoudnesses, aboveAbsolute)
        firstMeanPower == SumSeq(above) \div Len(above)
        AboveRelative(l) == 10 * l > firstMeanPower
        aboveRelative == SelectSeq(above, AboveRelative)
    IN  IF above = << >> THEN NegInf
        ELSE IF aboveRelative = << >> THEN NegInf
        ELSE SumSeq(aboveRelative) \div Len(aboveRelative)

\* Append that never shifts an entry out.
PushUncapped(s, x, cap) == Append(s, x)

\* Append with the oldest entry shifted out beyond `cap` entries.
PushCapped(s, x, cap) == IF Len(s) + 1 > cap THEN Tail(Append(s, x)) ELSE Append(s, x)

\* "Create a new block every hop".
EmitBlock(st) ==
    LET blockLufs == computeCurrentBlockLufs(st.sumSquares)
    IN  [ st EXCEPT
            !.samplesSinceLastBlock = @ - hopSizeSamples,
            !.blockLoudnesses = IF aboveAbsolute(blockLufs)
                                    THEN PushCapped(@, blockLufs, MAX_INTEGRATED_BLOCKS)
                                    ELSE @,
            !.shortTermBlocks = PushCapped(@, blockLufs, shortTermBlockCount),
            !.blockCount = @ + 1,
            !.emitted = Append(@, blockLufs) ]

\* "Emit ~10 Hz aggregated results".
PostReading(st) ==
    [ st EXCEPT
        !.samplesSinceLastUpdate = @ - updateIntervalSamples,
        !.published = @ + 1,
        !.posted = Append(@, [ momentary |-> getMomentary(st),
                               shortTerm |-> getShortTerm(st),
                               integrated |-> getIntegrated(st),
                               blockCount |-> st.blockCount ]) ]

\* The per-frame loop of process() over n frames of square p.  Frames that reach neither
\* a hop nor an update boundary only move the ring and the counters, so the loop is
\* taken from boundary to boundary; at a boundary the block comes before the reading.
RECURSIVE Frames(_, _, _)
Frames(st, n, p) ==
    IF n = 0 THEN st
    ELSE LET k == Min(n, Min(hopSizeSamples - st.samplesSinceLastBlock,
                             updateIntervalSamples - st.samplesSinceLastUpdate))
             ring == WriteRing(st.ringSquares, k, p)
             s1 == [ st EXCEPT
                        !.sumSquares = @ + k * p
                                         - (RingSum(st.ringSquares) - RingSum(DropOldest(st.ringSquares, k))),
                        !.ringSquares = ring,
                        !.samplesSinceLastBlock = @ + k,
                        !.samplesSinceLastUpdate = @ + k,
                        !.frames = @ + k,
                        !.quiet = @ /\ p = 0 ]
             s2 == IF s1.samplesSinceLastBlock >= hopSizeSamples THEN EmitBlock(s1) ELSE s1
             s3 == IF s2.samplesSinceLastUpdate >= updateIntervalSamples THEN PostReading(s2) ELSE s2
         IN  Frames(s3, n - k, p)

\* A fill that reaches the first channel only.
fillOutputsFirstChannel(out) == [ ch \in DOMAIN out |-> IF ch = 1 THEN 0 ELSE out[ch] ]

\* "Output silence to avoid double audio": outputChannel.fill(0) for every channel.
fillOutputs(out) == [ ch \in DOMAIN out |-> 0 ]

\* The K-weighted, channel-summed square of a frame: `input[1] ?? input[0]` stands in
\* for the right channel.
FramePower(input) ==
    LET inputL == input.left
        inputR == IF input.right = Missing THEN input.left ELSE input.right
    IN  inputL + inputR

\* process() with input: n frames of `input`; `out` is what the output buffers held.
process(st, n, input, out) ==
    [ Frames([ st EXCEPT !.posted = << >> ], n, FramePower(input)) EXCEPT
        !.outputs = fillOutputs(out), !.outputsBefore = out, !.hadInput = TRUE,
        !.mono = (input.right = Missing) ]

\* process() without input returns at once and leaves the output buffers alone.
processNoInput(st, out) ==
    [ st EXCEPT !.posted = << >>, !.outputs = out, !.outputsBefore = out, !.hadInput = FALSE ]

resetState(st) ==
    [ st EXCEPT
        !.ringSquares = << [ n |-> blockSizeSamples, p |-> 0 ] >>,
        !.sumSquares = 0,
        !.samplesSinceLastBlock = 0,
        !.samplesSinceLastUpdate = 0,
        !.blockLoudnesses = << >>,
        !.shortTermBlocks = << >>,
        !.blockCount = 0,
        !.frames = 0,
        !.quiet = TRUE,
        !.posted = << >>,
        !.published = 0,
        !.emitted = << >> ]

----------------------------------------------------------------------------
\* The re-scan calculator (LufsCalculator, src/unnamed/part_006), in the same units:
\* its block is 400 ms and its hop a quarter of it, as the engine's.

\* The state the constructor builds.  channelBuffers holds the bufferIndex frames
\* written so far, oldest first, as runs of equal squares.
NewCalculator ==
    [ channelBuffers |-> << >>,
      bufferIndex |-> 0,
      blockLoudnesses |-> << >>,
      shortTermBlocks |-> << >> ]

AppendRun(r, n, p) ==
    IF r # << >> /\ r[Len(r)].p = p
        THEN [ r EXCEPT ![Len(r)].n = @ + n ]
        ELSE Append(r, [ n |-> n, p |-> p ])

\* processBlock: the squares of the whole buffer are summed anew.
processBlock(c) ==
    LET sumWeighted == RingSum(c.channelBuffers)
        blockLoudness == IF sumWeighted > 0 THEN sumWeighted ELSE NegInf
    IN  [ c EXCEPT
            !.blockLoudnesses = IF blockLoudness > AbsoluteGate THEN Append(@, blockLoudness) ELSE @,
            !.shortTermBlocks = IF Len(@) + 1 > shortTermBlockCount
                                    THEN Tail(Append(@, blockLoudness))
                                    ELSE Append(@, blockLoudness) ]

shiftBuffers(c) ==
    [ c EXCEPT !.channelBuffers = DropOldest(@, hopSizeSamples),
               !.bufferIndex = blockSizeSamples - hopSizeSamples ]

\* processInterleaved over n frames of square p, taken from one full buffer to the next.
RECURSIVE processInterleaved(_, _, _)
processInterleaved(c, n, p) ==
    IF n = 0 THEN c
    ELSE LET k == Min(n, blockSizeSamples - c.bufferIndex)
             c1 == [ c EXCEPT !.channelBuffers = AppendRun(@, k, p), !.bufferIndex = @ + k ]
             c2 == IF c1.bufferIndex >= blockSizeSamples THEN shiftBuffers(processBlock(c1)) ELSE c1
         IN  processInterleaved(c2, n - k, p)

getMomentaryLoudness(c) ==
    IF c.shortTermBlocks = << >> THEN NegInf ELSE c.shortTermBlocks[Len(c.shortTermBlocks)]

getIntegratedLoudness(c) ==
    LET AboveAbsolute(l) == l > AbsoluteGate
        above == SelectSeq(c.blockLoudnesses, AboveAbsolute)
        firstPassMeanPower == SumSeq(above) \div Len(above)
        AboveRelative(l) == 10 * l > firstPassMeanPower
        aboveRelative == SelectSeq(above, AboveRelative)
    IN  IF c.blockLoudnesses = << >> THEN NegInf
        ELSE IF above = << >> THEN NegInf
        ELSE IF aboveRelative = << >> THEN NegInf
        ELSE SumSeq(aboveRelative) \div Len(aboveRelative)

reset(c) == NewCalculator

----------------------------------------------------------------------------
\* The limiter and the capture lifecycle in the offscreen document.
\*
\* thresholdDb is in tenths of a dB, kneeDb in dB, attackMs/releaseMs in milliseconds;
\* the node's attack and release are in microseconds (setValueAtTime takes seconds).

DefaultLimiterSettings ==
    [ enabled |-> FALSE, thresholdDb |-> -10, kneeDb |-> 0, ratio |-> 20,
      attackMs |-> 1, releaseMs |-> 100 ]

\* { ...settings, ...partial }
MergeSettings(settings, partial) ==
    [ f \in DOMAIN settings |-> IF f \in DOMAIN partial THEN partial[f] ELSE settings[f] ]

\* applyLimiterSettings that configures the node from the stored fields whatever `enabled` is.
applyLimiterSettingsAlways(settings) ==
    [ threshold |-> settings.thresholdDb, knee |-> settings.kneeDb, ratio |-> settings.ratio,
      attack |-> settings.attackMs * 1000, release |-> settings.releaseMs * 1000 ]

\* applyLimiterSettings: the parameters the DynamicsCompressorNode gets.
applyLimiterSettings(settings) ==
    IF settings.enabled
        THEN [ threshold |-> settings.thresholdDb, knee |-> settings.kneeDb,
               ratio |-> settings.ratio,
               attack |-> settings.attackMs * 1000, release |-> settings.releaseMs * 1000 ]
        ELSE [ threshold |-> 0, knee |-> 40, ratio |-> 1, attack |-> 0, release |-> 250000 ]

NoHostProc == [ has |-> FALSE, limiter |-> applyLimiterSettings(DefaultLimiterSettings), capture |-> 0 ]

\* updateAllLimiters
updateAllLimiters(procs, settings) ==
    [ t \in Tabs |-> IF procs[t].has
                       THEN [ procs[t] EXCEPT !.limiter = applyLimiterSettings(settings) ]
                       ELSE procs[t] ]

\* A capture attempt's resources: the media stream's tracks and the AudioContext;
\* how often stopCapture tore it down and CAPTURE_STOPPED was published for it, and
\* whether its setup was reported as failed.
NewCapture(t) ==
    [ tab |-> t, tracks |-> "live", context |-> "running", stops |-> 0, stopped |-> 0,
      failed |-> FALSE ]

\* History of the limiter: `applied` holds from a SET_LIMITER until the set of
\* processors changes; `kind` follows an {enabled: false} then {enabled: true} pair of
\* commands, each issued with no other limiter command in flight, from the snapshot
\* taken when the first was issued (while `applied` held).
NoToggle == [ kind |-> "none", applied |-> FALSE, settings |-> DefaultLimiterSettings,
              nodes |-> [ t \in Tabs |-> NoHostProc ] ]

HostInit ==
    /\ limiterSettings = DefaultLimiterSettings
    /\ globalLimiterSettings = DefaultLimiterSettings
    /\ hostProcessors = [ t \in Tabs |-> NoHostProc ]
    /\ captures = << >>
    /\ calls = << >>
    /\ toHost = << >>
    /\ fromHost = << >>
    /\ hostBudget = MaxHostCmds
    /\ toggled = NoToggle

\* The handshake with the offscreen document: nothing created, nothing signalled.
BootInit ==
    /\ offscreenDocumentReady = FALSE
    /\ offscreenReadyResolve = None
    /\ document = "none"
    /\ readyMessage = FALSE
    /\ sends = << >>
    /\ sent = << >>
    /\ sendBudget = MaxSends

AppInit ==
    /\ capturedTabs = [ t \in Tabs |-> NoTab ]
    /\ soloTabId = None
    /\ autoBalanceSettings = [ enabled |-> FALSE, targetLufs |-> DefaultTargetLufs ]
    /\ autoBalanceInterval = FALSE
    /\ regs = << >>
    /\ ready = << >>
    /\ nextObj = 1
    /\ processors = [ t \in Tabs |-> NoProc ]
    /\ toOff = << >>
    /\ toBg = << >>
    /\ tabAlive = Tabs
    /\ budget = MaxCmds
    /\ registered = [ t \in Tabs |-> 0 ]
    /\ last = NoLast
    /\ scn = NoScn

Init ==
    /\ AppInit
    /\ engine = NewEngine
    /\ calculator = NewCalculator
    /\ signal = MixedSignal
    /\ HostInit
    /\ BootInit

\* A command or host event happens while the budget lasts and the channels have room.
InFlight == Len(toOff) + Len(toBg) + Len(regs) + Len(ready)
CanIssue == budget > 0 /\ InFlight < MaxInFlight

----------------------------------------------------------------------------
\* Registration: START_CAPTURE_REQUEST -> startTabCapture.

\* startTabCapture up to its wait for the stream id: a missing tab and a tab that
\* is already being captured fail at once (isTabValid, chrome.tabs.get and the check
\* read nothing else, so they are one step).
RegisterStream(t) ==
    /\ CanIssue
    /\ t \in tabAlive
    /\ ~(capturedTabs[t].has /\ capturedTabs[t].isCapturing)
    /\ budget' = budget - 1
    /\ regs' = Append(regs, [ tab |-> t, pc |-> "stream" ])
    /\ last' = NoLast
    /\ scn' = NoScn
    /\ UNCHANGED << hostVars, engineVars, bootVars, capturedTabs, soloTabId, autoBalanceSettings, autoBalanceInterval, ready,
                    nextObj, processors, toOff, toBg, tabAlive, registered >>

\* The same request refused: 'Tab does not exist' or 'Tab is already being captured'.
RegisterRefused(t) ==
    /\ CanIssue
    /\ t \notin tabAlive \/ (capturedTabs[t].has /\ capturedTabs[t].isCapturing)
    /\ last' = [ NoLast EXCEPT !.name = "RegisterRefused", !.tab = t ]
    /\ scn' = NoScn
    /\ UNCHANGED << hostVars, engineVars, bootVars, capturedTabs, soloTabId, autoBalanceSettings, autoBalanceInterval, regs,
                    ready, nextObj, processors, toOff, toBg, tabAlive, budget, registered >>

\* chrome.tabCapture.getMediaStreamId resolves: the entry is set and START_CAPTURE
\* sent; or it throws: the catch deletes the Map entry.
RegStream(i, gotStream) ==
    /\ i \in 1..Len(regs) /\ regs[i].pc = "stream"
    /\ LET t == regs[i].tab
       IN  IF gotStream
             THEN /\ capturedTabs' = MapSet(capturedTabs, t, nextObj)
                  /\ nextObj' = nextObj + 1
                  /\ toOff' = sendToOffscreen(toOff,
                                   << Req("START_CAPTURE", t, 0,
                                          Cont("start", nextObj, "user", NoLoop)) >>)
                  /\ last' = NoLast
             ELSE /\ capturedTabs' = MapDelete(capturedTabs, t)
                  /\ last' = Did("RegStreamFailed", t)
                  /\ UNCHANGED << nextObj, toOff >>
    /\ regs' = RemoveAt(regs, i)
    /\ scn' = NoScn
    /\ UNCHANGED << hostVars, engineVars, bootVars, soloTabId, autoBalanceSettings, autoBalanceInterval, ready,
                    processors, toBg, tabAlive, budget, registered >>

\* The START_CAPTURE response: a failed start deletes the Map entry.
BgStartResponse ==
    /\ toBg # << >> /\ Head(toBg).type = "RESPONSE" /\ Head(toBg).k.kind = "start"
    /\ LET m == Head(toBg)
       IN  IF m.ok
             THEN /\ registered' = [ registered EXCEPT ![m.tab] = @ + 1 ]
                  /\ last' = NoLast
                  /\ UNCHANGED capturedTabs
             ELSE /\ capturedTabs' = MapDelete(capturedTabs, m.tab)
                  /\ last' = NoLast
                  /\ UNCHANGED registered
    /\ toBg' = Tail(toBg)
    /\ scn' = NoScn
    /\ UNCHANGED << hostVars, engineVars, bootVars, soloTabId, autoBalanceSettings, autoBalanceInterval, regs, ready, nextObj,
                    processors, toOff, tabAlive, budget >>

----------------------------------------------------------------------------
\* Removal.

\* STOP_CAPTURE_REQUEST -> stopTabCapture up to its await (an untracked tab is
\* refused and nothing changes).
UnregisterStream(t) ==
    /\ CanIssue
    /\ capturedTabs[t].has
    /\ budget' = budget - 1
    /\ toOff' = sendToOffscreen(toOff,
                               << Req("STOP_CAPTURE", t, 0, Cont("stop", 0, "user", NoLoop)) >>)
    /\ registered' = Forget(registered, t)
    /\ last' = NoLast
    /\ scn' = NoScn
    /\ UNCHANGED << hostVars, engineVars, bootVars, capturedTabs, soloTabId, autoBalanceSettings, autoBalanceInterval, regs,
                    ready, nextObj, processors, toBg, tabAlive >>

\* stopTabCapture after the STOP_CAPTURE response: capturedTabs.delete(tabId).
BgStopResponse ==
    /\ toBg # << >> /\ Head(toBg).type = "RESPONSE" /\ Head(toBg).k.kind = "stop"
    /\ capturedTabs' = MapDelete(capturedTabs, Head(toBg).tab)
    /\ toBg' = Tail(toBg)
    /\ last' = NoLast
    /\ scn' = NoScn
    /\ UNCHANGED << hostVars, engineVars, bootVars, soloTabId, autoBalanceSettings, autoBalanceInterval, regs, ready, nextObj,
                    processors, toOff, tabAlive, budget, registered >>

\* chrome.tabs.onRemoved: the tab is gone; a tracked tab goes through removeTab.
TabClosed(t) ==
    /\ t \in tabAlive
    /\ budget > 0
    /\ budget' = budget - 1
    /\ tabAlive' = tabAlive \ {t}
    /\ LET r == removeTab(capturedTabs, soloTabId, t)
       IN  /\ capturedTabs' = r.ct
           /\ soloTabId' = r.solo
           /\ toOff' = sendToOffscreen(toOff, r.out)
    /\ registered' = Forget(registered, t)
    /\ last' = NoLast
    /\ scn' = NoScn
    /\ UNCHANGED << hostVars, engineVars, bootVars, autoBalanceSettings, autoBalanceInterval, regs, ready, nextObj,
                    processors, toBg >>

\* CAPTURE_ERROR and STREAM_ENDED notifications: removeTab(msg.tabId, ...).
BgStreamGone ==
    /\ toBg # << >> /\ Head(toBg).type \in {"CAPTURE_ERROR", "STREAM_ENDED"}
    /\ LET r == removeTab(capturedTabs, soloTabId, Head(toBg).tab)
       IN  /\ capturedTabs' = r.ct
           /\ soloTabId' = r.solo
           /\ toOff' = sendToOffscreen(toOff, r.out)
    /\ toBg' = Tail(toBg)
    /\ registered' = Forget(registered, Head(toBg).tab)
    /\ last' = IF Head(toBg).type = "STREAM_ENDED" /\ capturedTabs[Head(toBg).tab].has
                 THEN Did("StreamEnded", Head(toBg).tab)
                 ELSE NoLast
    /\ scn' = NoScn
    /\ UNCHANGED << hostVars, engineVars, bootVars, autoBalanceSettings, autoBalanceInterval, regs, ready, nextObj,
                    processors, tabAlive, budget >>

\* removeTab resumed by the response to a restoring SET_GAIN.
BgRestoreResponse ==
    /\ toBg # << >> /\ Head(toBg).type = "RESPONSE" /\ Head(toBg).k.kind = "restore"
    /\ LET lp == Head(toBg).k.loop
           r == removeLoop(capturedTabs, lp.rm, lp.cursor)
       IN  /\ capturedTabs' = r.ct
           /\ toOff' = sendToOffscreen(toOff, r.out)
           /\ last' = NoLast
    /\ toBg' = Tail(toBg)
    /\ scn' = NoScn
    /\ UNCHANGED << hostVars, engineVars, bootVars, soloTabId, autoBalanceSettings, autoBalanceInterval, regs, ready, nextObj,
                    processors, tabAlive, budget, registered >>

\* A response nobody reads (removeTab's STOP_CAPTURE).
BgPlainResponse ==
    /\ toBg # << >> /\ Head(toBg).type = "RESPONSE" /\ Head(toBg).k.kind = "none"
    /\ toBg' = Tail(toBg)
    /\ last' = NoLast
    /\ scn' = ScnProcess
    /\ UNCHANGED << hostVars, engineVars, bootVars, capturedTabs, soloTabId, autoBalanceSettings, autoBalanceInterval, regs,
                    ready, nextObj, processors, toOff, tabAlive, budget, registered >>

\* cleanupInvalidTabs (every 5 s): a tracked tab the host no longer has is deleted.
CleanupInvalid(t) ==
    /\ capturedTabs[t].has /\ t \notin tabAlive
    /\ capturedTabs' = MapDelete(capturedTabs, t)
    /\ registered' = Forget(registered, t)
    /\ last' = Did("CleanupInvalid", t)
    /\ scn' = NoScn
    /\ UNCHANGED << hostVars, engineVars, bootVars, soloTabId, autoBalanceSettings, autoBalanceInterval, regs, ready, nextObj,
                    processors, toOff, toBg, tabAlive, budget >>

----------------------------------------------------------------------------
\* Gain commands.

\* SET_GAIN_REQUEST -> setTabGain up to its await (an untracked tab is refused and
\* nothing changes).
SetGain(t, g) ==
    /\ CanIssue
    /\ capturedTabs[t].has
    /\ budget' = budget - 1
    /\ toOff' = sendToOffscreen(toOff, << SetTabGainReq(capturedTabs, t, g, "user", NoLoop) >>)
    /\ last' = NoLast
    /\ scn' = IF Quiescent THEN Snap("sgA", t, g, TRUE)
              ELSE IF scn.kind = "sgA" /\ scn.tab = t
                THEN [ scn EXCEPT !.kind = "sgB", !.prev = scn.target, !.target = g ]
              ELSE NoScn
    /\ UNCHANGED << hostVars, engineVars, bootVars, capturedTabs, soloTabId, autoBalanceSettings, autoBalanceInterval, regs,
                    ready, nextObj, processors, toBg, tabAlive, registered >>

\* Variant: the ceiling is stored but a stored gain above it is left alone.
setTabMaxGainStoreOnly(ct, t, m) ==
    [ ct |-> [ ct EXCEPT ![t].maxGainDb = ClampMaxGain(m) ], out |-> << >> ]

\* setTabMaxGain's effect on the Map and the request it sends, for a tracked tab:
\* the ceiling is stored at once; a stored gain above it goes through setTabGain.
setTabMaxGain(ct, t, m) ==
    LET stored == [ ct EXCEPT ![t].maxGainDb = ClampMaxGain(m) ]
    IN  [ ct |-> stored,
          out |-> IF ct[t].gainDb > ClampMaxGain(m)
                    THEN << SetTabGainReq(stored, t, ClampMaxGain(m), "max", NoLoop) >>
                    ELSE << >> ]

\* SET_MAX_GAIN_REQUEST -> setTabMaxGain up to its await (untracked tab: refused).
SetMaxGain(t, m) ==
    /\ CanIssue
    /\ capturedTabs[t].has
    /\ budget' = budget - 1
    /\ capturedTabs' = setTabMaxGain(capturedTabs, t, m).ct
    /\ toOff' = sendToOffscreen(toOff, setTabMaxGain(capturedTabs, t, m).out)
    /\ last' = NoLast
    /\ scn' = IF Quiescent
                THEN Snap(IF setTabMaxGain(capturedTabs, t, m).out = << >> THEN "max2" ELSE "max1",
                          t, m, TRUE)
                ELSE NoScn
    /\ UNCHANGED << hostVars, engineVars, bootVars, soloTabId, autoBalanceSettings, autoBalanceInterval, regs, ready, nextObj,
                    processors, toBg, tabAlive, registered >>

\* setTabGain after the SET_GAIN response: tabState.gainDb = gainDb (the response's
\* success flag is not read).  An awaited balance request resumes its pass.
BgGainResponse ==
    /\ toBg # << >> /\ Head(toBg).type = "RESPONSE" /\ Head(toBg).k.kind = "gain"
    /\ LET m == Head(toBg)
       IN  /\ capturedTabs' = WriteGain(capturedTabs, m.tab, m.k.obj, m.gainDb)
           /\ ready' = IF m.k.src = "balance" THEN Append(ready, m.k.loop) ELSE ready
           /\ last' = NoLast
    /\ toBg' = Tail(toBg)
    /\ scn' = ScnGainResponse(Head(toBg).k.src)
    /\ UNCHANGED << hostVars, engineVars, bootVars, soloTabId, autoBalanceSettings, autoBalanceInterval, regs, nextObj,
                    processors, toOff, tabAlive, budget, registered >>

\* GAIN_UPDATED notification: the tab's entry takes the notified gain.
BgGainUpdated ==
    /\ toBg # << >> /\ Head(toBg).type = "GAIN_UPDATED"
    /\ LET m == Head(toBg)
       IN  /\ capturedTabs' = IF capturedTabs[m.tab].has
                                THEN [ capturedTabs EXCEPT ![m.tab].gainDb = m.gainDb ]
                                ELSE capturedTabs
           /\ last' = NoLast
    /\ toBg' = Tail(toBg)
    /\ scn' = ScnProcess
    /\ UNCHANGED << hostVars, engineVars, bootVars, soloTabId, autoBalanceSettings, autoBalanceInterval, regs, ready, nextObj,
                    processors, toOff, tabAlive, budget, registered >>

----------------------------------------------------------------------------
\* Solo.

\* TOGGLE_SOLO -> toggleSolo (an untracked tab is refused and nothing changes).
ToggleSolo(t) ==
    /\ CanIssue
    /\ capturedTabs[t].has
    /\ budget' = budget - 1
    /\ capturedTabs' = toggleSolo(capturedTabs, soloTabId, t).ct
    /\ soloTabId' = toggleSolo(capturedTabs, soloTabId, t).solo
    /\ last' = NoLast
    /\ scn' = IF soloTabId # t THEN Snap("solo1", t, 0, Quiescent)
              ELSE IF scn.kind = "solo1" /\ scn.tab = t THEN [ scn EXCEPT !.kind = "solo2" ]
              ELSE NoScn
    /\ UNCHANGED << hostVars, engineVars, bootVars, autoBalanceSettings, autoBalanceInterval, regs, ready, nextObj,
                    processors, toOff, toBg, tabAlive, registered >>

\* CLEAR_SOLO -> clearSolo
ClearSolo ==
    /\ CanIssue
    /\ soloTabId # None
    /\ budget' = budget - 1
    /\ capturedTabs' = clearSolo(capturedTabs, soloTabId).ct
    /\ soloTabId' = clearSolo(capturedTabs, soloTabId).solo
    /\ last' = NoLast
    /\ scn' = NoScn
    /\ UNCHANGED << hostVars, engineVars, bootVars, autoBalanceSettings, autoBalanceInterval, regs, ready, nextObj,
                    processors, toOff, toBg, tabAlive, registered >>

----------------------------------------------------------------------------
\* Balancing.

PassDid(name, target, msgs) ==
    [ name |-> name, tab |-> None, target |-> target, issued |-> Awaited(msgs),
      periodic |-> FALSE, sent |-> Len(msgs) ]

\* The requests of a pass that the interval callback awaits.
Periodic(msgs) ==
    [ i \in 1..Len(msgs) |-> IF msgs[i].k.src = "balance"
                               THEN [ msgs[i] EXCEPT !.k.loop.periodic = TRUE ]
                               ELSE msgs[i] ]

\* AUTO_BALANCE_REQUEST: autoBalanceOnce(msg.targetLufs ?? stored) up to its first await.
BalanceNow(given) ==
    /\ CanIssue
    /\ budget' = budget - 1
    /\ LET target == RequestTarget(given, autoBalanceSettings.targetLufs)
           msgs == autoBalanceOnce(capturedTabs, soloTabId, target, 0)
       IN  /\ toOff' = sendToOffscreen(toOff, msgs)
           /\ last' = PassDid("BalanceNow", target, msgs)
           /\ scn' = ScnPass(TRUE, target, msgs)
    /\ UNCHANGED << hostVars, engineVars, bootVars, capturedTabs, soloTabId, autoBalanceSettings, autoBalanceInterval, regs,
                    ready, nextObj, processors, toBg, tabAlive, registered >>

\* The setInterval callback of startContinuousAutoBalance (every 500 ms).
Tick ==
    /\ autoBalanceInterval
    /\ CanIssue
    /\ budget' = budget - 1
    /\ autoBalanceSettings.enabled
    /\ \E t \in Tabs : capturedTabs[t].has
    /\ LET msgs == Periodic(autoBalanceOnce(capturedTabs, soloTabId,
                                             autoBalanceSettings.targetLufs, 0))
       IN  /\ toOff' = sendToOffscreen(toOff, msgs)
           /\ last' = [ PassDid("Tick", autoBalanceSettings.targetLufs, msgs)
                          EXCEPT !.periodic = TRUE ]
           /\ scn' = ScnTick
    /\ UNCHANGED << hostVars, engineVars, bootVars, capturedTabs, soloTabId, autoBalanceSettings, autoBalanceInterval, regs,
                    ready, nextObj, processors, toBg, tabAlive, registered >>

\* autoBalanceOnce resumed after `await setTabGain(...)` returned.
PassContinue ==
    /\ ready # << >>
    /\ LET lp == Head(ready)
           rest == autoBalanceOnce(capturedTabs, soloTabId, lp.target, lp.cursor)
           msgs == IF lp.periodic THEN Periodic(rest) ELSE rest
       IN  /\ toOff' = sendToOffscreen(toOff, msgs)
           /\ last' = [ PassDid(IF Awaited(msgs) = None THEN "PassDone" ELSE "PassContinue",
                                lp.target, msgs)
                          EXCEPT !.periodic = lp.periodic ]
           /\ scn' = ScnPass(FALSE, lp.target, msgs)
    /\ ready' = Tail(ready)
    /\ UNCHANGED << hostVars, engineVars, bootVars, capturedTabs, soloTabId, autoBalanceSettings, autoBalanceInterval, regs,
                    nextObj, processors, toBg, tabAlive, budget, registered >>

\* setAutoBalanceEnabled(enabled): the flag, the timer (startContinuousAutoBalance
\* creates it unless it exists, stopContinuousAutoBalance clears it), and nothing
\* else: the Map is not written and no request is sent.
\* Variant: disabling also resets every stored gain to 0 dB.
setAutoBalanceEnabledResetting(ct, settings, interval, enabled) ==
    [ settings |-> [ settings EXCEPT !.enabled = enabled ],
      interval |-> IF enabled THEN TRUE ELSE FALSE,
      ct |-> IF enabled THEN ct
             ELSE [ t \in Tabs |-> IF ct[t].has THEN [ ct[t] EXCEPT !.gainDb = 0 ] ELSE ct[t] ],
      out |-> << >> ]

setAutoBalanceEnabled(ct, settings, interval, enabled) ==
    [ settings |-> [ settings EXCEPT !.enabled = enabled ],
      interval |-> IF enabled THEN TRUE ELSE FALSE,
      ct |-> ct,
      out |-> << >> ]

\* SET_AUTO_BALANCE_ENABLED -> setAutoBalanceEnabled
SetAutoBalanceEnabled(enabled) ==
    /\ CanIssue
    /\ budget' = budget - 1
    /\ LET r == setAutoBalanceEnabled(capturedTabs, autoBalanceSettings,
                                      autoBalanceInterval, enabled)
       IN  /\ autoBalanceSettings' = r.settings
           /\ autoBalanceInterval' = r.interval
           /\ capturedTabs' = r.ct
           /\ toOff' = sendToOffscreen(toOff, r.out)
    /\ last' = NoLast
    /\ scn' = IF enabled THEN Snap("en1", None, 0, Quiescent)
              ELSE IF scn.kind = "en1" THEN [ scn EXCEPT !.kind = "en2" ]
              ELSE Snap("dis", None, 0, Quiescent)
    /\ UNCHANGED << hostVars, engineVars, bootVars, soloTabId, regs, ready, nextObj, processors, toBg, tabAlive, registered >>

\* SET_TARGET_LUFS -> setTargetLufs
SetTargetLufs(targetLufs) ==
    /\ CanIssue
    /\ budget' = budget - 1
    /\ autoBalanceSettings' = [ autoBalanceSettings EXCEPT !.targetLufs = ClampTarget(targetLufs) ]
    /\ last' = [ Did("SetTargetLufs", None) EXCEPT !.target = targetLufs ]
    /\ scn' = NoScn
    /\ UNCHANGED << hostVars, engineVars, bootVars, capturedTabs, soloTabId, autoBalanceInterval, regs, ready, nextObj,
                    processors, toOff, toBg, tabAlive, registered >>

----------------------------------------------------------------------------
\* The offscreen document: its onMessage listener takes the requests in order.

\* START_CAPTURE -> startCapture: an existing processor is cleaned up first; then the
\* capture is set up (CAPTURE_STARTED) or fails (CAPTURE_ERROR).
OffStartCapture(ok) ==
    /\ toOff # << >> /\ Head(toOff).type = "START_CAPTURE"
    /\ LET m == Head(toOff)
       IN  /\ processors' = [ processors EXCEPT ![m.tab] = IF ok THEN NewProc ELSE NoProc ]
           /\ toBg' = toBg \o << Note(IF ok THEN "CAPTURE_STARTED" ELSE "CAPTURE_ERROR",
                                      m.tab, 0, NegInf, 0),
                                 Resp(m, ok) >>
           /\ last' = NoLast
    /\ toOff' = Tail(toOff)
    /\ scn' = NoScn
    /\ UNCHANGED << hostVars, engineVars, bootVars, capturedTabs, soloTabId, autoBalanceSettings, autoBalanceInterval, regs,
                    ready, nextObj, tabAlive, budget, registered >>

\* STOP_CAPTURE -> stopCapture: without a processor it returns at once.
OffStopCapture ==
    /\ toOff # << >> /\ Head(toOff).type = "STOP_CAPTURE"
    /\ LET m == Head(toOff)
       IN  /\ processors' = [ processors EXCEPT ![m.tab] = NoProc ]
           /\ toBg' = toBg \o ( IF processors[m.tab].has
                                  THEN << Note("CAPTURE_STOPPED", m.tab, 0, NegInf, 0) >>
                                  ELSE << >> )
                           \o << Resp(m, TRUE) >>
           /\ last' = NoLast
    /\ toOff' = Tail(toOff)
    /\ scn' = NoScn
    /\ UNCHANGED << hostVars, engineVars, bootVars, capturedTabs, soloTabId, autoBalanceSettings, autoBalanceInterval, regs,
                    ready, nextObj, tabAlive, budget, registered >>

\* A setGain that rebuilt the processor's measurement state with the gain.
setGainRemeasuring(proc, gainDb) == [ NewProc EXCEPT !.gainDb = gainDb ]

\* setGain on an existing processor: gainNode.gain.setValueAtTime(dbToGain(gainDb), ...).
setGain(proc, gainDb) == [ proc EXCEPT !.gainDb = gainDb ]

\* SET_GAIN -> setGain: without a processor it answers success: false; otherwise the
\* gain node is set and GAIN_UPDATED published.
OffSetGain ==
    /\ toOff # << >> /\ Head(toOff).type = "SET_GAIN"
    /\ LET m == Head(toOff)
       IN  IF processors[m.tab].has
             THEN /\ processors' = [ processors EXCEPT ![m.tab] = setGain(@, m.gainDb) ]
                  /\ toBg' = toBg \o << Note("GAIN_UPDATED", m.tab, m.gainDb, NegInf, 0),
                                        Resp(m, TRUE) >>
                  /\ last' = NoLast
             ELSE /\ toBg' = Append(toBg, Resp(m, FALSE))
                  /\ last' = NoLast
                  /\ UNCHANGED processors
    /\ toOff' = Tail(toOff)
    /\ scn' = ScnProcess
    /\ UNCHANGED << hostVars, engineVars, bootVars, capturedTabs, soloTabId, autoBalanceSettings, autoBalanceInterval, regs,
                    ready, nextObj, tabAlive, budget, registered >>

\* The track's 'ended' event: cleanupProcessor, then STREAM_ENDED.
TrackEnded(t) ==
    /\ processors[t].has
    /\ budget > 0
    /\ budget' = budget - 1
    /\ processors' = [ processors EXCEPT ![t] = NoProc ]
    /\ toBg' = Append(toBg, Note("STREAM_ENDED", t, 0, NegInf, 0))
    /\ last' = Did("TrackEnded", t)
    /\ scn' = NoScn
    /\ UNCHANGED << hostVars, engineVars, bootVars, capturedTabs, soloTabId, autoBalanceSettings, autoBalanceInterval, regs,
                    ready, nextObj, toOff, tabAlive, registered >>

\* What a worklet that last posted `w` can post next: blockCount only grows, and once
\* the integrated history holds a block the integrated loudness stays finite.
CanPost(w, r) ==
    /\ r.blockCount >= w.blockCount
    /\ w.integrated # NegInf => r.integrated # NegInf

\* The worklet posts a reading (workletNode.port.onmessage): the processor caches it
\* and forwards it as LUFS_UPDATE.  A worklet that has not yet taken a posted 'reset'
\* still posts from its old state.
LufsUpdate(t, r) ==
    /\ processors[t].has
    /\ CanIssue
    /\ CanPost(processors[t].worklet, r)
    /\ budget' = budget - 1
    /\ processors' = [ processors EXCEPT ![t].worklet = r,
                                         ![t].lastIntegrated = r.integrated,
                                         ![t].blockCount = r.blockCount,
                                         ![t].unread = FALSE ]
    /\ toBg' = Append(toBg, [ Note("LUFS_UPDATE", t, 0, r.integrated, r.blockCount)
                                EXCEPT !.first = processors[t].unread ])
    /\ last' = NoLast
    /\ scn' = NoScn
    /\ UNCHANGED << hostVars, engineVars, bootVars, capturedTabs, soloTabId, autoBalanceSettings, autoBalanceInterval, regs,
                    ready, nextObj, toOff, tabAlive, registered >>

\* The worklet takes the 'reset' from its port: resetState.
WorkletReset(t) ==
    /\ processors[t].has /\ processors[t].resetPosted
    /\ processors' = [ processors EXCEPT ![t].worklet = NewWorklet, ![t].resetPosted = FALSE ]
    /\ last' = NoLast
    /\ UNCHANGED << hostVars, engineVars, bootVars, capturedTabs, soloTabId, autoBalanceSettings, autoBalanceInterval, regs,
                    ready, nextObj, toOff, toBg, tabAlive, budget, registered, scn >>

\* RESET_LUFS_REQUEST: the handler forwards RESET_LUFS and awaits the answer.
ResetMeasurements(t) ==
    /\ CanIssue
    /\ capturedTabs[t].has \/ processors[t].has
    /\ budget' = budget - 1
    /\ toOff' = sendToOffscreen(toOff, << Req("RESET_LUFS", t, 0, Cont("reset", 0, "user", NoLoop)) >>)
    /\ last' = NoLast
    /\ scn' = IF Quiescent THEN Snap("rst1", t, 0, TRUE) ELSE NoScn
    /\ UNCHANGED << hostVars, engineVars, bootVars, capturedTabs, soloTabId, autoBalanceSettings, autoBalanceInterval, regs,
                    ready, nextObj, processors, toBg, tabAlive, registered >>

\* RESET_LUFS -> resetLufs: without a processor nothing happens; otherwise 'reset' is
\* posted to the worklet, the cached reading is cleared and LUFS_RESET published.
OffResetLufs ==
    /\ toOff # << >> /\ Head(toOff).type = "RESET_LUFS"
    /\ LET m == Head(toOff)
       IN  IF processors[m.tab].has
             THEN /\ processors' = [ processors EXCEPT ![m.tab].resetPosted = TRUE,
                                                       ![m.tab].lastIntegrated = NegInf,
                                                       ![m.tab].blockCount = 0,
                                                       ![m.tab].unread = TRUE ]
                  /\ toBg' = toBg \o << Note("LUFS_RESET", m.tab, 0, NegInf, 0), Resp(m, TRUE) >>
             ELSE /\ toBg' = Append(toBg, Resp(m, TRUE))
                  /\ UNCHANGED processors
    /\ toOff' = Tail(toOff)
    /\ last' = NoLast
    /\ scn' = ScnProcess
    /\ UNCHANGED << hostVars, engineVars, bootVars, capturedTabs, soloTabId, autoBalanceSettings, autoBalanceInterval, regs,
                    ready, nextObj, tabAlive, budget, registered >>

\* LUFS_RESET notification: it is a notification type, and no case handles it.
BgLufsReset ==
    /\ toBg # << >> /\ Head(toBg).type = "LUFS_RESET"
    /\ toBg' = Tail(toBg)
    /\ last' = NoLast
    /\ scn' = ScnProcess
    /\ UNCHANGED << hostVars, engineVars, bootVars, capturedTabs, soloTabId, autoBalanceSettings, autoBalanceInterval, regs,
                    ready, nextObj, processors, toOff, tabAlive, budget, registered >>

\* The RESET_LUFS response: the RESET_LUFS_REQUEST handler returns success.
BgResetResponse ==
    /\ toBg # << >> /\ Head(toBg).type = "RESPONSE" /\ Head(toBg).k.kind = "reset"
    /\ toBg' = Tail(toBg)
    /\ last' = NoLast
    /\ scn' = IF scn.kind = "rst1" THEN [ scn EXCEPT !.kind = "rst2" ] ELSE ScnProcess
    /\ UNCHANGED << hostVars, engineVars, bootVars, capturedTabs, soloTabId, autoBalanceSettings, autoBalanceInterval, regs,
                    ready, nextObj, processors, toOff, tabAlive, budget, registered >>

\* LUFS_UPDATE notification: the tab's entry takes the reading.
BgLufsUpdate ==
    /\ toBg # << >> /\ Head(toBg).type = "LUFS_UPDATE"
    /\ LET m == Head(toBg)
       IN  /\ capturedTabs' = IF capturedTabs[m.tab].has
                                THEN [ capturedTabs EXCEPT ![m.tab].integrated = m.integrated,
                                                           ![m.tab].blockCount = m.blockCount ]
                                ELSE capturedTabs
           /\ last' = NoLast
    /\ toBg' = Tail(toBg)
    /\ scn' = NoScn
    /\ UNCHANGED << hostVars, engineVars, bootVars, soloTabId, autoBalanceSettings, autoBalanceInterval, regs, ready, nextObj,
                    processors, toOff, tabAlive, budget, registered >>

\* CAPTURE_STARTED / CAPTURE_STOPPED notifications set the entry's isCapturing.
BgCaptureState ==
    /\ toBg # << >> /\ Head(toBg).type \in {"CAPTURE_STARTED", "CAPTURE_STOPPED"}
    /\ LET m == Head(toBg)
       IN  /\ capturedTabs' = IF capturedTabs[m.tab].has
                                THEN [ capturedTabs EXCEPT
                                         ![m.tab].isCapturing = (m.type = "CAPTURE_STARTED") ]
                                ELSE capturedTabs
           /\ last' = NoLast
    /\ toBg' = Tail(toBg)
    /\ scn' = NoScn
    /\ UNCHANGED << hostVars, engineVars, bootVars, soloTabId, autoBalanceSettings, autoBalanceInterval, regs, ready, nextObj,
                    processors, toOff, tabAlive, budget, registered >>

----------------------------------------------------------------------------
Next ==
    \/ \E t \in Tabs : RegisterStream(t)
    \/ \E t \in Tabs : RegisterRefused(t)
    \/ \E i \in 1..MaxInFlight, gotStream \in BOOLEAN : RegStream(i, gotStream)
    \/ BgStartResponse
    \/ \E t \in Tabs : UnregisterStream(t)
    \/ BgStopResponse
    \/ \E t \in Tabs : TabClosed(t)
    \/ BgStreamGone
    \/ BgRestoreResponse
    \/ BgPlainResponse
    \/ \E t \in Tabs : CleanupInvalid(t)
    \/ \E t \in Tabs, g \in GainInputs : SetGain(t, g)
    \/ \E t \in Tabs, m \in MaxGainInputs : SetMaxGain(t, m)
    \/ BgGainResponse
    \/ BgGainUpdated
    \/ \E t \in Tabs : ToggleSolo(t)
    \/ ClearSolo
    \/ \E given \in BalanceTargets : BalanceNow(given)
    \/ Tick
    \/ PassContinue
    \/ \E enabled \in BOOLEAN : SetAutoBalanceEnabled(enabled)
    \/ \E targetLufs \in TargetInputs : SetTargetLufs(targetLufs)
    \/ \E ok \in BOOLEAN : OffStartCapture(ok)
    \/ OffStopCapture
    \/ OffSetGain
    \/ \E t \in Tabs : TrackEnded(t)
    \/ \E t \in Tabs, r \in Readings : LufsUpdate(t, r)
    \/ BgLufsUpdate
    \/ BgCaptureState
    \/ \E t \in Tabs : WorkletReset(t)
    \/ \E t \in Tabs : ResetMeasurements(t)
    \/ OffResetLufs
    \/ BgLufsReset
    \/ BgResetResponse

Spec == Init /\ [][Next]_vars

\* What the browser does on its own: messages are delivered and handled, promises
\* resolve, continuations run, the worklet takes what its port holds.
Deliveries ==
    \/ \E i \in 1..MaxInFlight, gotStream \in BOOLEAN : RegStream(i, gotStream)
    \/ BgStartResponse \/ BgStopResponse \/ BgStreamGone \/ BgRestoreResponse
    \/ BgPlainResponse \/ BgGainResponse \/ BgGainUpdated \/ PassContinue
    \/ \E ok \in BOOLEAN : OffStartCapture(ok)
    \/ OffStopCapture \/ OffSetGain \/ OffResetLufs
    \/ \E t \in Tabs : WorkletReset(t)
    \/ BgLufsReset \/ BgResetResponse \/ BgLufsUpdate \/ BgCaptureState

\* The same machine with every delivery eventually made.
LiveSpec == Spec /\ WF_vars(Deliveries)

----------------------------------------------------------------------------
\* Balancing on its own: the Coordinator was started with stored auto-balance settings
\* that have it enabled (loadState starts the timer), at a stored target of -60 LUFS,
\* and both streams are registered and have reported ten blocks at -30 LUFS.

MeasuredReading == [ integrated |-> -30, blockCount |-> 10 ]

BalancingInit ==
    /\ capturedTabs = [ t \in Tabs |-> [ NewTabState(t, t) EXCEPT
                                            !.integrated = MeasuredReading.integrated,
                                            !.blockCount = MeasuredReading.blockCount ] ]
    /\ soloTabId = None
    /\ autoBalanceSettings = [ enabled |-> TRUE, targetLufs |-> TargetFloor ]
    /\ autoBalanceInterval = TRUE
    /\ regs = << >>
    /\ ready = << >>
    /\ nextObj = 3
    /\ processors = [ t \in Tabs |-> [ NewProc EXCEPT
                                          !.worklet = MeasuredReading,
                                          !.lastIntegrated = MeasuredReading.integrated,
                                          !.blockCount = MeasuredReading.blockCount,
                                          !.unread = FALSE ] ]
    /\ toOff = << >>
    /\ toBg = << >>
    /\ tabAlive = Tabs
    /\ budget = MaxCmds
    /\ registered = [ t \in Tabs |-> 1 ]
    /\ last = NoLast
    /\ scn = NoScn
    /\ engine = NewEngine
    /\ calculator = NewCalculator
    /\ signal = MixedSignal
    /\ HostInit
    /\ BootInit

\* The commands and events that bear on gains, and the deliveries they lead to.
BalancingNext ==
    \/ Tick
    \/ PassContinue
    \/ \E enabled \in BOOLEAN : SetAutoBalanceEnabled(enabled)
    \/ \E given \in BalanceTargets : BalanceNow(given)
    \/ \E t \in Tabs, g \in GainInputs : SetGain(t, g)
    \/ \E t \in Tabs : ToggleSolo(t)
    \/ ClearSolo
    \/ \E t \in Tabs, r \in Readings : LufsUpdate(t, r)
    \/ BgLufsUpdate
    \/ OffSetGain
    \/ BgGainResponse
    \/ BgGainUpdated

BalancingSpec == BalancingInit /\ [][BalancingNext]_vars

----------------------------------------------------------------------------
\* The handshake on its own: sendToOffscreen calls running ensureOffscreenDocument
\* while the offscreen document is created, loads and announces itself.

\* chrome.runtime.sendMessage({ target: 'offscreen', ... }) of call `call`.
sendMessage(log, call) == Append(log, [ id |-> call.id, signalled |-> document = "loaded" ])

\* What getContexts can answer: a document that is still loading may be listed or not.
ContextsSeen == IF document = "none" THEN {FALSE}
                ELSE IF document = "loading" THEN BOOLEAN
                ELSE {TRUE}

\* A command for the offscreen document: sendToOffscreen up to `await getContexts`.
SendToOffscreen ==
    /\ sendBudget > 0
    /\ sendBudget' = sendBudget - 1
    /\ sends' = Append(sends, [ id |-> MaxSends - sendBudget + 1, pc |-> "getContexts" ])
    /\ UNCHANGED << offscreenDocumentReady, offscreenReadyResolve, document, readyMessage, sent,
                    appVars, engineVars, hostVars >>

\* getContexts resolves.  With a context listed the flag is set and the command sent;
\* otherwise the flag is cleared and createDocument called, which rejects when a
\* document exists already (the call then throws).
GotContexts(i, existing) ==
    /\ i \in 1..Len(sends) /\ sends[i].pc = "getContexts"
    /\ existing \in ContextsSeen
    /\ IF existing
         THEN /\ offscreenDocumentReady' = TRUE
              /\ sent' = sendMessage(sent, sends[i])
              /\ sends' = RemoveAt(sends, i)
              /\ UNCHANGED document
         ELSE /\ offscreenDocumentReady' = FALSE
              /\ IF document = "none"
                   THEN /\ document' = "loading"
                        /\ sends' = [ sends EXCEPT ![i].pc = "createDocument" ]
                   ELSE /\ sends' = RemoveAt(sends, i)
                        /\ UNCHANGED document
              /\ UNCHANGED sent
    /\ UNCHANGED << offscreenReadyResolve, readyMessage, sendBudget, appVars, engineVars, hostVars >>

\* The offscreen document's script runs: the listener is registered and
\* OFFSCREEN_READY sent.
DocumentLoaded ==
    /\ document = "loading"
    /\ document' = "loaded"
    /\ readyMessage' = TRUE
    /\ UNCHANGED << offscreenDocumentReady, offscreenReadyResolve, sends, sent, sendBudget,
                    appVars, engineVars, hostVars >>

\* OFFSCREEN_READY handled: the flag is set and a waiting call resolved, which then
\* sends its command.
OffscreenReady ==
    /\ readyMessage
    /\ readyMessage' = FALSE
    /\ offscreenDocumentReady' = TRUE
    /\ offscreenReadyResolve' = None
    /\ IF \E i \in 1..Len(sends) : sends[i].id = offscreenReadyResolve
         THEN LET i == CHOOSE i \in 1..Len(sends) : sends[i].id = offscreenReadyResolve
              IN  /\ sent' = sendMessage(sent, sends[i])
                  /\ sends' = RemoveAt(sends, i)
         ELSE UNCHANGED << sends, sent >>
    /\ UNCHANGED << document, sendBudget, appVars, engineVars, hostVars >>

\* createDocument resolves: waitForOffscreenReady returns at once when the flag is set
\* (the command is sent), and otherwise stores its resolver.
CreateDone(i) ==
    /\ i \in 1..Len(sends) /\ sends[i].pc = "createDocument"
    /\ IF offscreenDocumentReady
         THEN /\ sent' = sendMessage(sent, sends[i])
              /\ sends' = RemoveAt(sends, i)
              /\ UNCHANGED offscreenReadyResolve
         ELSE /\ offscreenReadyResolve' = sends[i].id
              /\ sends' = [ sends EXCEPT ![i].pc = "waitReady" ]
              /\ UNCHANGED sent
    /\ UNCHANGED << offscreenDocumentReady, document, readyMessage, sendBudget,
                    appVars, engineVars, hostVars >>

BootNext ==
    \/ SendToOffscreen
    \/ \E i \in 1..MaxSends, existing \in BOOLEAN : GotContexts(i, existing)
    \/ DocumentLoaded
    \/ OffscreenReady
    \/ \E i \in 1..MaxSends : CreateDone(i)

BootSpec == Init /\ [][BootNext]_vars

----------------------------------------------------------------------------
\* The engine on its own: one LufsProcessor fed by the audio render thread.

\* The input: a constant power per frame up to MaxFrames frames, in calls of one of
\* the lengths of FrameCounts (up to MaxLongFrames frames in calls of a second), or a
\* power that changes from hop to hop for MixedHops hops.
CanProcess(p) ==
    IF signal.p = Mixed
        THEN engine.frames + signal.n <= MixedHops * hopSizeSamples
        ELSE /\ p = signal.p
             /\ engine.frames + signal.n <= IF signal.n = sampleRate THEN MaxLongFrames ELSE MaxFrames

\* process(): one render call of signal.n frames of `input` into output buffers
\* holding `out`; the calculator is handed the same filtered frames.
Process(input, out) ==
    /\ CanProcess(FramePower(input))
    /\ engine' = process(engine, signal.n, input, out)
    /\ calculator' = processInterleaved(calculator, signal.n, FramePower(input))
    /\ UNCHANGED << signal, appVars, hostVars, bootVars >>

\* process(): a render call without input, before the source delivers frames.
ProcessIdle(out) ==
    /\ engine.frames = 0
    /\ engine' = processNoInput(engine, out)
    /\ engine' # engine
    /\ UNCHANGED << calculator, signal, appVars, hostVars, bootVars >>

\* port.onmessage with { type: 'reset' }.
Reset ==
    /\ engine.frames > 0
    /\ engine' = resetState(engine)
    /\ calculator' = reset(calculator)
    /\ UNCHANGED << signal, appVars, hostVars, bootVars >>

EngineInit ==
    /\ AppInit
    /\ HostInit
    /\ BootInit
    /\ engine = NewEngine
    /\ calculator = NewCalculator
    /\ signal \in [ p : Powers, n : FrameCounts ] \cup {MixedSignal}

EngineNext ==
    \/ \E input \in Inputs, out \in OutputContents : Process(input, out)
    \/ \E out \in OutputContents : ProcessIdle(out)
    \/ Reset

EngineSpec == EngineInit /\ [][EngineNext]_vars

----------------------------------------------------------------------------
\* The offscreen document's captures and the limiter on their own.  START_CAPTURE and
\* STOP_CAPTURE are taken as they reach the offscreen listener; SetLimiter starts in the
\* background.  Every await of startCapture, stopCapture and cleanupProcessor is a
\* suspension in `calls`, and suspended calls resume in any order.

LimiterQuiet == toHost = << >> /\ fromHost = << >>
HostQuiet == calls = << >> /\ LimiterQuiet

\* cleanupProcessor up to `await audioContext.close()`: listeners removed, nodes
\* disconnected, tracks stopped.
cleanupProcessor(caps, c) == [ caps EXCEPT ![c].tracks = "stopped" ]

\* START_CAPTURE -> startCapture up to its first await: the cleanup of an existing
\* processor, or getUserMedia.
HostStartCapture(t) ==
    /\ hostBudget > 0
    /\ hostBudget' = hostBudget - 1
    /\ IF hostProcessors[t].has
         THEN /\ captures' = cleanupProcessor(captures, hostProcessors[t].capture)
              /\ calls' = Append(calls, [ fn |-> "start", tab |-> t, pc |-> "cleanup",
                                          capture |-> hostProcessors[t].capture,
                                          limiter |-> NoHostProc.limiter ])
         ELSE /\ calls' = Append(calls, [ fn |-> "start", tab |-> t, pc |-> "getUserMedia",
                                          capture |-> 0, limiter |-> NoHostProc.limiter ])
              /\ UNCHANGED captures
    /\ toggled' = [ toggled EXCEPT !.kind = "none" ]
    /\ UNCHANGED << limiterSettings, globalLimiterSettings, hostProcessors, toHost, fromHost,
                    engineVars, bootVars, appVars >>

\* STOP_CAPTURE -> stopCapture: without a processor it returns; otherwise
\* cleanupProcessor runs up to its await.
HostStopCapture(t) ==
    /\ hostBudget > 0
    /\ hostBudget' = hostBudget - 1
    /\ IF hostProcessors[t].has
         THEN LET c == hostProcessors[t].capture
              IN  /\ captures' = [ cleanupProcessor(captures, c) EXCEPT ![c].stops = @ + 1 ]
                  /\ calls' = Append(calls, [ fn |-> "stop", tab |-> t, pc |-> "cleanup",
                                              capture |-> c, limiter |-> NoHostProc.limiter ])
         ELSE UNCHANGED << captures, calls >>
    /\ toggled' = [ toggled EXCEPT !.kind = "none" ]
    /\ UNCHANGED << limiterSettings, globalLimiterSettings, hostProcessors, toHost, fromHost,
                    engineVars, bootVars, appVars >>

\* audioContext.close() resolves: cleanupProcessor deletes the Map entry of the tab;
\* stopCapture then publishes CAPTURE_STOPPED, startCapture goes on to getUserMedia.
CleanupDone(i) ==
    /\ i \in 1..Len(calls) /\ calls[i].pc = "cleanup"
    /\ LET call == calls[i]
           closed == [ captures EXCEPT ![call.capture].context = "closed" ]
       IN  /\ hostProcessors' = [ hostProcessors EXCEPT ![call.tab] = NoHostProc ]
           /\ IF call.fn = "stop"
                THEN /\ captures' = [ closed EXCEPT ![call.capture].stopped = @ + 1 ]
                     /\ calls' = RemoveAt(calls, i)
                ELSE /\ captures' = closed
                     /\ calls' = [ calls EXCEPT ![i].pc = "getUserMedia", ![i].capture = 0 ]
    /\ toggled' = [ toggled EXCEPT !.kind = "none", !.applied = FALSE ]
    /\ UNCHANGED << limiterSettings, globalLimiterSettings, toHost, fromHost, hostBudget,
                    engineVars, bootVars, appVars >>

\* getUserMedia and audioContext.resume() resolve: the graph is built, the limiter node
\* gets the current settings, and startCapture awaits audioWorklet.addModule.  Or
\* getUserMedia rejects: CAPTURE_ERROR and a failure response, nothing was acquired.
GotUserMedia(i, ok) ==
    /\ i \in 1..Len(calls) /\ calls[i].pc = "getUserMedia"
    /\ IF ok
         THEN /\ Len(captures) < MaxCaptures
              /\ captures' = Append(captures, NewCapture(calls[i].tab))
              /\ calls' = [ calls EXCEPT ![i].pc = "addModule",
                                         ![i].capture = Len(captures) + 1,
                                         ![i].limiter = applyLimiterSettings(globalLimiterSettings) ]
         ELSE /\ calls' = RemoveAt(calls, i)
              /\ UNCHANGED captures
    /\ toggled' = [ toggled EXCEPT !.kind = "none" ]
    /\ UNCHANGED << limiterSettings, globalLimiterSettings, hostProcessors, toHost, fromHost,
                    hostBudget, engineVars, bootVars, appVars >>

\* addModule resolves: processors.set, CAPTURE_STARTED, success.  Or it rejects: the
\* catch publishes CAPTURE_ERROR and returns the failure.
ModuleLoaded(i, ok) ==
    /\ i \in 1..Len(calls) /\ calls[i].pc = "addModule"
    /\ LET call == calls[i]
       IN  IF ok
             THEN /\ hostProcessors' = [ hostProcessors EXCEPT ![call.tab] =
                                           [ has |-> TRUE, limiter |-> call.limiter,
                                             capture |-> call.capture ] ]
                  /\ UNCHANGED captures
             ELSE /\ captures' = [ captures EXCEPT ![call.capture].failed = TRUE ]
                  /\ UNCHANGED hostProcessors
    /\ calls' = RemoveAt(calls, i)
    /\ toggled' = [ toggled EXCEPT !.kind = "none", !.applied = FALSE ]
    /\ UNCHANGED << limiterSettings, globalLimiterSettings, toHost, fromHost, hostBudget,
                    engineVars, bootVars, appVars >>

\* SET_LIMITER_SETTINGS -> setLimiterSettings (background) up to its await: the payload
\* is merged into limiterSettings and the whole record sent as SET_LIMITER.
SetLimiter(partial) ==
    /\ hostBudget > 0
    /\ hostBudget' = hostBudget - 1
    /\ limiterSettings' = MergeSettings(limiterSettings, partial)
    /\ toHost' = Append(toHost, limiterSettings')
    /\ toggled' =
         IF /\ LimiterQuiet /\ toggled.applied
            /\ partial = [ enabled |-> FALSE ] /\ globalLimiterSettings.enabled
            THEN [ toggled EXCEPT !.kind = "off1", !.settings = globalLimiterSettings,
                                  !.nodes = hostProcessors ]
         ELSE IF LimiterQuiet /\ partial = [ enabled |-> TRUE ] /\ toggled.kind = "off2"
            THEN [ toggled EXCEPT !.kind = "on1" ]
         ELSE [ toggled EXCEPT !.kind = "none" ]
    /\ UNCHANGED << globalLimiterSettings, hostProcessors, captures, calls, fromHost,
                    engineVars, bootVars, appVars >>

\* SET_LIMITER -> setLimiterSettings (offscreen): merge, updateAllLimiters,
\* LIMITER_UPDATED (which the background ignores) and the response with the settings.
OffSetLimiter ==
    /\ toHost # << >>
    /\ globalLimiterSettings' = MergeSettings(globalLimiterSettings, Head(toHost))
    /\ hostProcessors' = updateAllLimiters(hostProcessors, globalLimiterSettings')
    /\ toHost' = Tail(toHost)
    /\ fromHost' = Append(fromHost, globalLimiterSettings')
    /\ toggled' = [ toggled EXCEPT !.applied = TRUE,
                                   !.kind = IF @ = "off1" THEN "off2"
                                            ELSE IF @ = "on1" THEN "on2" ELSE "none" ]
    /\ UNCHANGED << limiterSettings, captures, calls, hostBudget, engineVars, bootVars, appVars >>

\* The SET_LIMITER response: limiterSettings = response.settings.
BgLimiterResponse ==
    /\ fromHost # << >>
    /\ limiterSettings' = Head(fromHost)
    /\ fromHost' = Tail(fromHost)
    /\ UNCHANGED << globalLimiterSettings, hostProcessors, captures, calls, toHost, hostBudget,
                    toggled, engineVars, bootVars, appVars >>

HostNext ==
    \/ \E t \in Tabs : HostStartCapture(t)
    \/ \E t \in Tabs : HostStopCapture(t)
    \/ \E i \in 1..MaxHostCmds : CleanupDone(i)
    \/ \E i \in 1..MaxHostCmds, ok \in BOOLEAN : GotUserMedia(i, ok)
    \/ \E i \in 1..MaxHostCmds, ok \in BOOLEAN : ModuleLoaded(i, ok)
    \/ \E partial \in LimiterPayloads : SetLimiter(partial)
    \/ OffSetLimiter
    \/ BgLimiterResponse

HostSpec == Init /\ [][HostNext]_vars

\* The same after a browser restart: loadState has put the stored limiter settings (an
\* earlier session enabled the limiter) into the background's limiterSettings, and the
\* offscreen document starts from its own defaults.
StoredLimiterSettings == MergeSettings(DefaultLimiterSettings, [ enabled |-> TRUE ])

RestartInit ==
    /\ AppInit
    /\ engine = NewEngine
    /\ calculator = NewCalculator
    /\ signal = MixedSignal
    /\ limiterSettings = StoredLimiterSettings
    /\ globalLimiterSettings = DefaultLimiterSettings
    /\ hostProcessors = [ t \in Tabs |-> NoHostProc ]
    /\ captures = << >>
    /\ calls = << >>
    /\ toHost = << >>
    /\ fromHost = << >>
    /\ hostBudget = MaxHostCmds
    /\ toggled = NoToggle
    /\ BootInit

RestartSpec == RestartInit /\ [][HostNext]_vars

----------------------------------------------------------------------------
\* Claims.

Tracked(t) == capturedTabs[t].has

\* C1: whenever no command is in flight, every tracked stream's recorded gain lies in
\* [-60, maxGainDb] (the claim, read at the states where every handler has returned).
C1_GainWithinCeiling ==
    Quiescent =>
        \A t \in Tabs : Tracked(t) =>
            /\ capturedTabs[t].gainDb >= DEFAULT_MIN_GAIN
            /\ capturedTabs[t].gainDb <= capturedTabs[t].maxGainDb

\* C2: while a stream is soloed, every other tracked stream with a processor is muted
\* in the audio path (gain node at or below the floor the Coordinator can apply), read
\* at the states where every handler has returned.
C2_SoloMutesOthers ==
    (Quiescent /\ soloTabId # None) =>
        \A t \in Tabs : (Tracked(t) /\ t # soloTabId /\ processors[t].has) =>
            processors[t].gainDb <= DEFAULT_MIN_GAIN

\* C3: ToggleSolo(a) directly followed by ToggleSolo(a) leaves no stream soloed and
\* every recorded and every applied gain as before the first toggle.
C3_SoloTwiceRestores ==
    scn.kind = "solo2" =>
        /\ soloTabId = None
        /\ \A t \in Tabs : ~capturedTabs[t].isSolo
        /\ Gains(capturedTabs) = scn.gains
        /\ Applied(processors) = scn.applied

C3_Witness ==
    /\ scn.kind = "solo2"
    /\ Tracked(scn.tab)
    /\ \E t \in Tabs : Tracked(t) /\ t # scn.tab /\ processors[t].has

\* C4: while solo is held and only balance passes run, the stored gain of every
\* non-soloed stream stays the value it had when solo was set.
C4_SoloKeepsStoredGains ==
    (scn.kind \in {"solo1", "hold"} /\ scn.quiet) =>
        \A t \in Tabs : (Tracked(t) /\ t # soloTabId) => capturedTabs[t].gainDb = scn.gains[t]

\* C5: the soloed id is none or the id of a tracked stream.
C5_SoloIsTracked == soloTabId # None => Tracked(soloTabId)

\* C6: of the registrations of one stream id with no removal between them, at most one
\* succeeds, and the entry of the one that succeeded stays in the Map.
C6_OneRegistrationSucceeds ==
    \A t \in Tabs : registered[t] <= 1 /\ (registered[t] >= 1 => Tracked(t))

\* C7: a balance pass issues a loudness-derived gain only for a stream whose recorded
\* reading has at least MIN_BLOCKS_FOR_RELIABLE_LUFS blocks.
C7_WarmupGuard ==
    last.issued # None => capturedTabs[last.issued].blockCount >= MIN_BLOCKS_FOR_RELIABLE_LUFS

C7_Witness ==
    /\ last.name = "BalanceNow" /\ last.issued = None
    /\ toOff = << >>
    /\ \E t \in Tabs :
          /\ Tracked(t) /\ capturedTabs[t].isCapturing /\ soloTabId = None
          /\ capturedTabs[t].blockCount = 5 /\ capturedTabs[t].integrated = -20

Eligible(t) ==
    /\ Tracked(t) /\ capturedTabs[t].isCapturing
    /\ soloTabId \in {None, t}
    /\ capturedTabs[t].blockCount >= MIN_BLOCKS_FOR_RELIABLE_LUFS
    /\ capturedTabs[t].integrated # NegInf

\* C8: when a BalanceNow(target) that ran alone has completed, every capturing stream
\* not muted by solo, with block_count >= 10 and finite integrated loudness, has gain
\* clamp(target - integrated, -60, maxGainDb), recorded and (with a processor) applied.
C8_BalanceResult ==
    scn.kind = "bal2" =>
        \A t \in Tabs : Eligible(t) =>
            LET want == Max(DEFAULT_MIN_GAIN,
                            Min(capturedTabs[t].maxGainDb, scn.target - capturedTabs[t].integrated))
            IN  /\ capturedTabs[t].gainDb = want
                /\ processors[t].has => processors[t].gainDb = want

C8_Witness ==
    /\ scn.kind = "bal2" /\ scn.target = DefaultTargetLufs
    /\ \E t \in Tabs :
          /\ Eligible(t) /\ processors[t].has
          /\ capturedTabs[t].integrated = -30 /\ capturedTabs[t].maxGainDb = 20
          /\ capturedTabs[t].gainDb = 16

\* C9: the stored target and the target of every balance pass lie in [-60, 0].
C9_TargetInRange ==
    /\ autoBalanceSettings.targetLufs >= TargetFloor
    /\ autoBalanceSettings.targetLufs <= TargetCeil
    /\ last.name \in {"BalanceNow", "Tick", "PassContinue", "PassDone"} =>
          (last.target >= TargetFloor /\ last.target <= TargetCeil)

\* C10: SetAutoBalance{enabled:false}, alone or directly after
\* SetAutoBalance{enabled:true}, leaves every recorded and applied gain as it was
\* before the command (before the pair).
C10_DisableKeepsGains ==
    scn.kind \in {"dis", "en2"} =>
        /\ Gains(capturedTabs) = scn.gains
        /\ Applied(processors) = scn.applied

C10_Witness ==
    /\ scn.kind = "en2"
    /\ ~autoBalanceSettings.enabled /\ ~autoBalanceInterval
    /\ \E t \in Tabs : Tracked(t) /\ capturedTabs[t].gainDb # 0

\* C11: a SetMaxGain(s, m) that ran alone to completion has stored
\* maxGainDb = clamp(m, -20, 20); a gain that exceeded the new maximum is now that
\* maximum, recorded and (with a processor) applied; a gain at or below it is unchanged.
C11_MaxGainStoresAndLowers ==
    scn.kind = "max2" =>
        LET t == scn.tab
            mx == Max(MaxGainFloor, Min(MaxGainCeil, scn.target))
        IN  /\ Tracked(t)
            /\ capturedTabs[t].maxGainDb = mx
            /\ IF scn.gains[t] > mx
                 THEN /\ capturedTabs[t].gainDb = mx
                      /\ processors[t].has => processors[t].gainDb = mx
                 ELSE /\ capturedTabs[t].gainDb = scn.gains[t]
                      /\ processors[t].gainDb = scn.applied[t]

C11_Witness ==
    /\ scn.kind = "max2" /\ scn.target = -25
    /\ scn.gains[scn.tab] = 0 /\ scn.applied[scn.tab] = 0
    /\ processors[scn.tab].has
    /\ capturedTabs[scn.tab].maxGainDb = MaxGainFloor
    /\ capturedTabs[scn.tab].gainDb = MaxGainFloor
    /\ processors[scn.tab].gainDb = MaxGainFloor

C13_PassUpdatesCommitted ==
    scn.kind = "bal2" =>
        \A t \in Tabs : (Tracked(t) /\ capturedTabs[t].isCapturing /\ soloTabId \notin {None, t}) =>
            /\ capturedTabs[t].gainDb = DEFAULT_MIN_GAIN
            /\ processors[t].has => processors[t].gainDb = DEFAULT_MIN_GAIN

\* C14: when a ResetMeasurements(s) that ran alone has completed and the worklet has
\* posted nothing since, the reading of s is integrated = -infinity with block_count = 0
\* in the offscreen processor and in the Coordinator's snapshot.
C14_ResetClearsReadings ==
    scn.kind = "rst2" =>
        LET t == scn.tab
        IN  /\ processors[t].has =>
                   (processors[t].lastIntegrated = NegInf /\ processors[t].blockCount = 0)
            /\ Tracked(t) =>
                   (capturedTabs[t].integrated = NegInf /\ capturedTabs[t].blockCount = 0)

\* C15: a reading the Coordinator is about to record for a stream, other than the
\* first one forwarded after a reset or a new capture, has a block_count no smaller
\* than the one recorded for that stream.
C15_RecordedBlockCountMonotonic ==
    (toBg # << >> /\ Head(toBg).type = "LUFS_UPDATE") =>
        LET m == Head(toBg)
        IN  (Tracked(m.tab) /\ ~m.first) => m.blockCount >= capturedTabs[m.tab].blockCount

\* C16: an engine that has processed fewer than block_size_samples frames since it
\* was built or reset has emitted no block: block_count is 0 and the integrated and
\* short-term histories are empty.
C16_NoBlockBeforeRingFull ==
    engine.frames < blockSizeSamples =>
        /\ engine.blockCount = 0
        /\ engine.blockLoudnesses = << >>
        /\ engine.shortTermBlocks = << >>

\* C17: a fresh engine that has processed exactly 5 s of audio at 48 kHz (240000
\* frames) has a block_count of 46 +/- 1.
C17_FiveSecondBlockCount ==
    engine.frames = 5 * sampleRate => engine.blockCount \in 45..47

\* C17, second half: the block count is a function of the number of frames processed
\* alone, whatever the samples were.
C17_CountFromFramesOnly ==
    engine.blockCount = engine.frames \div hopSizeSamples

\* C18: while every frame processed since construction or reset was zero, every
\* reading posted has momentary = short-term = integrated = -infinity, and the
\* integrated history is empty.
C18_SilenceReadsNegInf ==
    engine.quiet =>
        /\ engine.blockLoudnesses = << >>
        /\ \A i \in 1..Len(engine.posted) :
               /\ engine.posted[i].momentary = NegInf
               /\ engine.posted[i].shortTerm = NegInf
               /\ engine.posted[i].integrated = NegInf

\* Silence was processed past a full ring, blocks were counted and readings posted.
C18_Witness ==
    /\ engine.quiet
    /\ engine.frames >= blockSizeSamples
    /\ engine.blockCount > 0
    /\ engine.posted # << >>

\* C19: every entry of the integrated history is a block loudness strictly above
\* -70 LUFS, and a signal that stays at or below -70 LUFS reads integrated = -infinity.
C19_AbsoluteGate ==
    /\ \A i \in 1..Len(engine.blockLoudnesses) : engine.blockLoudnesses[i] > AbsoluteGate
    /\ (signal.p # Mixed /\ signal.p <= GatePower) =>
           \A i \in 1..Len(engine.posted) : engine.posted[i].integrated = NegInf

\* Ten seconds of a -80 LUFS signal were processed and the last call posted readings.
C19_Witness ==
    /\ signal.p = 1
    /\ engine.frames = 10 * sampleRate
    /\ engine.blockCount > 0
    /\ engine.posted # << >>

\* C20: in every reading posted, each of momentary, short-term and integrated is
\* -infinity or strictly above -70 LUFS.
C20_ReadingsGated ==
    \A i \in 1..Len(engine.posted) :
        /\ engine.posted[i].momentary = NegInf \/ engine.posted[i].momentary > AbsoluteGate
        /\ engine.posted[i].shortTerm = NegInf \/ engine.posted[i].shortTerm > AbsoluteGate
        /\ engine.posted[i].integrated = NegInf \/ engine.posted[i].integrated > AbsoluteGate

\* The measurements of every stream: the worklet's state as the offscreen document
\* sees it, the processor's cached reading and the Coordinator's snapshot.
Measurements ==
    [ t \in Tabs |-> << processors[t].worklet, processors[t].resetPosted,
                        processors[t].lastIntegrated, processors[t].blockCount,
                        capturedTabs[t].integrated, capturedTabs[t].blockCount >> ]

C22_LimiterNodeFollowsEnabled ==
    /\ toggled.applied =>
         \A t \in Tabs : hostProcessors[t].has =>
            LET node == hostProcessors[t].limiter
                st == globalLimiterSettings
            IN  IF st.enabled
                  THEN /\ node.threshold = st.thresholdDb /\ node.knee = st.kneeDb
                       /\ node.ratio = st.ratio
                       /\ node.attack = st.attackMs * 1000 /\ node.release = st.releaseMs * 1000
                  ELSE /\ node.threshold = 0 /\ node.knee = 40 /\ node.ratio = 1
                       /\ node.attack = 0 /\ node.release = 250000
    /\ toggled.kind = "off2" =>
         globalLimiterSettings = [ toggled.settings EXCEPT !.enabled = FALSE ]
    /\ toggled.kind = "on2" =>
         /\ globalLimiterSettings = toggled.settings
         /\ hostProcessors = toggled.nodes

\* enabled was toggled off and on again while a stream with a limiter node was active.
C22_Witness ==
    /\ toggled.kind = "on2"
    /\ \E t \in Tabs : hostProcessors[t].has

\* Stored limiter settings within the documented ranges: threshold in [-6, -0.1] dB,
\* knee in [0, 40] dB, ratio at least 1.
InLimiterRange(st) ==
    /\ st.thresholdDb >= -60 /\ st.thresholdDb <= -1
    /\ st.kneeDb >= 0 /\ st.kneeDb <= 40
    /\ st.ratio >= 1

\* C23: after any sequence of SetLimiter commands the limiter settings stored by the
\* Coordinator and by the audio host are within their ranges.
C23_LimiterSettingsInRange ==
    InLimiterRange(limiterSettings) /\ InLimiterRange(globalLimiterSettings)

\* C24: whenever no command is in flight, the limiter node of every active stream
\* holds the parameters derived from the current global limiter settings.
C24_OneLimiterForAll ==
    HostQuiet =>
        \A t \in Tabs : hostProcessors[t].has =>
            hostProcessors[t].limiter = applyLimiterSettings(globalLimiterSettings)

\* C26: once a capture setup has been reported as failed, the media stream and the
\* AudioContext it had acquired are no longer live and no processor holds them.
C26_FailedSetupReleased ==
    \A c \in 1..Len(captures) : captures[c].failed =>
        /\ captures[c].tracks = "stopped"
        /\ captures[c].context = "closed"
        /\ \A t \in Tabs : ~(hostProcessors[t].has /\ hostProcessors[t].capture = c)

\* C29: for every capture, stops issued after or during the first stop run no further
\* teardown and CAPTURE_STOPPED is published at most once.
C29_StopIdempotent ==
    \A c \in 1..Len(captures) : captures[c].stops <= 1 /\ captures[c].stopped <= 1

\* C30: after every process() call that received input, every channel of the output
\* is all zeros, whatever the buffers held before.
C30_AnalysisOutputSilent ==
    engine.hadInput => \A ch \in DOMAIN engine.outputs : engine.outputs[ch] = 0

\* A call with input found non-zero output buffers.
C30_Witness ==
    /\ engine.hadInput
    /\ engine.frames > 0
    /\ \A ch \in DOMAIN engine.outputsBefore : engine.outputsBefore[ch] # 0

\* C25: when a RegisterStream has failed because the stream id could not be obtained,
\* a CaptureError event for that stream has been published.
C25_FailurePublishesCaptureError ==
    last.name = "RegStreamFailed" =>
        \E i \in 1..Len(toBg) : toBg[i].type = "CAPTURE_ERROR" /\ toBg[i].tab = last.tab

C28_CleanupStopsCapture ==
    last.name = "CleanupInvalid" =>
        \/ ~processors[last.tab].has
        \/ \E i \in 1..Len(toOff) : toOff[i].type = "STOP_CAPTURE" /\ toOff[i].tab = last.tab

\* C31: a fresh (or reset) engine that has processed N frames has published exactly
\* floor(N / update_interval_samples) readings, for stereo input and for mono input
\* alike; a call without input publishes nothing; and the frames counted towards the
\* next reading are the remainder N mod update_interval_samples.
C31_ReadingsPerInterval ==
    /\ engine.published = engine.frames \div Max(128, sampleRate \div 10)
    /\ engine.samplesSinceLastUpdate = engine.frames % Max(128, sampleRate \div 10)
    /\ ~engine.hadInput => engine.posted = << >>

\* A mono call of a second took an engine that had published readings before across
\* ten more update intervals.
C31_Witness ==
    /\ engine.hadInput
    /\ engine.mono
    /\ Len(engine.posted) = 10
    /\ engine.published > 10
    /\ engine.frames >= Max(128, sampleRate \div 10)

\* The last n entries of s, all of s when it has fewer.
MostRecent(s, n) == SubSeq(s, Max(1, Len(s) - n + 1), Len(s))

\* C33: the integrated history never holds more than 600 entries and is always the
\* most recent (at most 600) blocks that passed the absolute gate, in emission order;
\* the short-term history never holds more than 30 entries and is the most recent (at
\* most 30) blocks.
C33_HistoriesCapped ==
    LET Gated(l) == l > AbsoluteGate
    IN  /\ Len(engine.blockLoudnesses) <= 600
        /\ engine.blockLoudnesses = MostRecent(SelectSeq(engine.emitted, Gated), 600)
        /\ Len(engine.shortTermBlocks) <= 30
        /\ engine.shortTermBlocks = MostRecent(engine.emitted, 30)

\* More than 600 gated blocks were emitted, the first of them quieter than the rest;
\* the history is full and no longer starts with that first block.
C33_Witness ==
    /\ Len(engine.emitted) > 600
    /\ \A i \in 1..Len(engine.emitted) : engine.emitted[i] > AbsoluteGate
    /\ Len(engine.blockLoudnesses) = 600
    /\ engine.emitted[1] < engine.emitted[Len(engine.emitted)]
    /\ engine.blockLoudnesses[1] # engine.emitted[1]

\* C34: after every call the running sum of squares equals the sum of the ring's
\* contents, and the engine and a re-scan calculator fed the same frames agree on the
\* loudness of the latest block and on the integrated loudness.
C34_RollingMatchesRescan ==
    /\ engine.sumSquares = RingSum(engine.ringSquares)
    /\ getMomentary(engine) = getMomentaryLoudness(calculator)
    /\ getIntegrated(engine) = getIntegratedLoudness(calculator)

\* C34, first half: the running sum of squares is the sum of the ring's contents.
C34_RunningSumIsRingSum ==
    engine.sumSquares = RingSum(engine.ringSquares)

\* C34, from the first full window on: the latest block of the two is the same.
C34_SameBlockOnceFull ==
    engine.frames >= blockSizeSamples =>
        getMomentary(engine) = getMomentaryLoudness(calculator)

\* C40: the integrated loudness, the engine's and the calculator's, is -infinity
\* exactly when the integrated history is empty; otherwise it lies between the smallest
\* and the largest block loudness of the history.
C40_IntegratedFiniteIffHistory ==
    /\ (getIntegrated(engine) = NegInf) <=> (engine.blockLoudnesses = << >>)
    /\ engine.blockLoudnesses # << >> =>
           /\ \E i \in 1..Len(engine.blockLoudnesses) :
                  engine.blockLoudnesses[i] <= getIntegrated(engine)
           /\ \E i \in 1..Len(engine.blockLoudnesses) :
                  engine.blockLoudnesses[i] >= getIntegrated(engine)
    /\ (getIntegratedLoudness(calculator) = NegInf) <=> (calculator.blockLoudnesses = << >>)
    /\ calculator.blockLoudnesses # << >> =>
           /\ \E i \in 1..Len(calculator.blockLoudnesses) :
                  calculator.blockLoudnesses[i] <= getIntegratedLoudness(calculator)
           /\ \E i \in 1..Len(calculator.blockLoudnesses) :
                  calculator.blockLoudnesses[i] >= getIntegratedLoudness(calculator)

\* The relative gate drops a block of the engine's history: the integrated loudness is
\* above the mean of the history.
C40_Witness ==
    /\ engine.blockLoudnesses # << >>
    /\ \E i \in 1..Len(engine.blockLoudnesses) :
           10 * engine.blockLoudnesses[i]
               <= SumSeq(engine.blockLoudnesses) \div Len(engine.blockLoudnesses)
    /\ getIntegrated(engine) > SumSeq(engine.blockLoudnesses) \div Len(engine.blockLoudnesses)
    /\ calculator.blockLoudnesses # << >>

\* C32: the gain update a balance pass issues for a stream muted by solo asks for
\* -100 dB, whatever the stream's loudness.
C32_SoloPassForcesMute ==
    \A i \in 1..Len(toOff) :
        (toOff[i].type = "SET_GAIN" /\ toOff[i].k.src = "mute") => toOff[i].gainDb = -100

\* A gain update for stream t is under way: a SET_GAIN not yet handled, its
\* GAIN_UPDATED or response not yet handled.
GainInFlight(t) ==
    \/ \E i \in 1..Len(toOff) : toOff[i].type = "SET_GAIN" /\ toOff[i].tab = t
    \/ \E i \in 1..Len(toBg) :
           /\ toBg[i].tab = t
           /\ \/ toBg[i].type = "GAIN_UPDATED"
              \/ toBg[i].type = "RESPONSE" /\ toBg[i].k.kind \in {"gain", "restore"}

\* C37: whenever no gain update for a stream is under way, the gain the Coordinator
\* records for the stream is the gain of the gain node the audio host holds for it.
C37_RecordedGainIsApplied ==
    \A t \in Tabs :
        (Tracked(t) /\ processors[t].has /\ ~GainInFlight(t)) =>
            capturedTabs[t].gainDb = processors[t].gainDb

\* C39: a periodic pass that resumes while auto-balance is disabled issues no gain
\* update.
C39_DisabledPassIssuesNothing ==
    (last.name \in {"PassContinue", "PassDone"} /\ last.periodic /\ ~autoBalanceSettings.enabled)
        => last.sent = 0

\* The live audio graphs of a tab: captures whose tracks have not been stopped, other
\* than those whose setup was reported as failed.
LiveGraphs(t) ==
    { c \in 1..Len(captures) :
        captures[c].tab = t /\ captures[c].tracks = "live" /\ ~captures[c].failed }

\* C35: at any time at most one live audio graph exists per tab in the audio host,
\* and once no call is suspended every live graph is the one its tab's processor holds.
C35_OneLiveGraphPerTab ==
    \A t \in Tabs :
        /\ Cardinality(LiveGraphs(t)) <= 1
        /\ calls = << >> =>
               \A c \in LiveGraphs(t) : hostProcessors[t].has /\ hostProcessors[t].capture = c

\* C38: whenever no limiter command is in flight and no capture is being set up, the
\* limiter node of every stream holds the parameters that follow from the limiter
\* settings the Coordinator reports.
C38_ReportedLimiterIsApplied ==
    (LimiterQuiet /\ calls = << >>) =>
        \A t \in Tabs : hostProcessors[t].has =>
            hostProcessors[t].limiter = applyLimiterSettings(limiterSettings)

\* C38 without the restart: the two copies of the settings agree.
C38_CopiesAgree ==
    LimiterQuiet => limiterSettings = globalLimiterSettings

\* C36: every command sent to the offscreen document was sent after the document had
\* signalled OFFSCREEN_READY.
C36_SendsAfterReady ==
    \A i \in 1..Len(sent) : sent[i].signalled

====
